---- MODULE Spec2Model ----
(***************************************************************************)
(* Avenir backend: the infrastructure cache (get_infrastructure_for_area), *)
(* the Overpass fetch loops (fetch_from_overpass, fetch_facility_locations)*)
(* and the routes that call them, as a state machine.                      *)
(*                                                                         *)
(* Every request is a coroutine on one event loop: it runs atomically from *)
(* one await to the next.  The only awaits are the upstream HTTP posts, so *)
(* a request takes one step when it arrives (everything up to the first    *)
(* post) and one step per upstream response (everything up to the next     *)
(* post, or to the end of the handler).  Each request has its own database *)
(* session (get_db), so the row object it loaded is private to it.         *)
(***************************************************************************)
EXTENDS Integers, Sequences, FiniteSets, TLC

VARIABLES db, now, pc, frame, log, result, profiles, DEFAULT_WEIGHTS

vars == <<db, now, pc, frame, log, result, profiles, DEFAULT_WEIGHTS>>

---------------------------------------------------------------------------
(* Bounds of the model *)

NumRequests == 2
NumPlainAreas == 1
MaxClock == 24

(* Program constants *)

CACHE_TTL_HOURS == 24
DefaultMaxRetries == 3
RadiusStep == 500
DefaultRadius == 2000
ForceRefreshArea == 6

Requests == 1..NumRequests

\* seed.py: the six seeded areas get ids 1..6; the model keeps the first
\* NumPlainAreas of them and area 6, the one the locations route force-refreshes.
SeedRadius == <<2500, 2000, 2000, 3000, 2200, 2500>>
MAIN_AREA_IDS == {1, 2, 3, 4, 5, 6}
Areas == {a \in MAIN_AREA_IDS : a <= NumPlainAreas \/ a = ForceRefreshArea}

OVERPASS_ENDPOINTS ==
    << "https://overpass-api.de/api/interpreter",
       "https://overpass.kumi.systems/api/interpreter",
       "https://maps.mail.ru/osm/tools/overpass/api/interpreter" >>

CountKeys ==
    << "hospital_count", "school_count", "bus_stop_count", "metro_count",
       "supermarket_count", "restaurant_count", "gym_count", "bar_count" >>

KeySet == {CountKeys[i] : i \in 1..Len(CountKeys)}

None == [none |-> TRUE]

ZeroCounts == [k \in KeySet |-> 0]

---------------------------------------------------------------------------
(* Upstream responses *)

CountEl(n) == [type |-> "count", numeric |-> TRUE, total |-> n]
BadCountEl == [type |-> "count", numeric |-> FALSE, total |-> 0]
OtherEl == [type |-> "node", numeric |-> TRUE, total |-> 0]

CountEls(totals) == [i \in 1..Len(totals) |-> CountEl(totals[i])]

\* Bodies an endpoint may answer a count query with: eight blocks with a
\* non-zero total, eight zeros, fewer than eight blocks after an element of
\* another type, no element at all, and a total that is not a number.
CountBodies ==
    { CountEls(<<2, 1, 3, 1, 1, 4, 1, 2>>),
      CountEls(<<0, 0, 0, 0, 0, 0, 0, 0>>),
      <<OtherEl, CountEl(1), CountEl(2)>>,
      <<>>,
      <<CountEl(1), BadCountEl>> }

\* What one upstream post can come to: a JSON body, an HTTP error status
\* (raise_for_status), a transport error or timeout, or a body that is not JSON.
CountOutcomes ==
    {[kind |-> "ok", elements |-> b] : b \in CountBodies}
        \cup {[kind |-> "http_error", elements |-> <<>>],
              [kind |-> "bad_json", elements |-> <<>>]}

RECURSIVE SumSeq(_)
SumSeq(s) == IF s = <<>> THEN 0 ELSE Head(s) + SumSeq(Tail(s))

Pad8(counts) ==
    [i \in 1..(IF Len(counts) < 8 THEN 8 ELSE Len(counts)) |->
        IF i <= Len(counts) THEN counts[i] ELSE 0]

\* parse_overpass_counts: [raised |-> TRUE] when int() fails on a total.
IsCount(el) == el.type = "count"

\* Mutant: a body with fewer than eight count blocks is a parse failure.
ParseRequiresEight(elements) ==
    LET cs == SelectSeq(elements, IsCount)
    IN  IF Len(cs) < 8 \/ \E i \in 1..Len(cs) : ~cs[i].numeric
        THEN [raised |-> TRUE, counts |-> ZeroCounts]
        ELSE [raised |-> FALSE,
              counts |-> [k \in KeySet |->
                  cs[CHOOSE i \in 1..8 : CountKeys[i] = k].total]]

parse_overpass_counts(elements) ==
    LET cs == SelectSeq(elements, IsCount)
    IN  IF \E i \in 1..Len(cs) : ~cs[i].numeric
        THEN [raised |-> TRUE, counts |-> ZeroCounts]
        ELSE LET totals == Pad8([i \in 1..Len(cs) |-> cs[i].total])
             IN  [raised |-> FALSE,
                  counts |-> [k \in KeySet |->
                      totals[CHOOSE i \in 1..8 : CountKeys[i] = k]]]

SumCounts(c) == SumSeq([i \in 1..8 |-> c[CountKeys[i]]])

---------------------------------------------------------------------------
(* fetch_from_overpass: one pass of the retry loop *)

\* Mutant: every attempt goes to the first endpoint.
EndpointAlwaysFirst(attempt) == 0

\* Line 216 (and 268): the endpoint of attempt number `attempt`, 0-based.
EndpointIndex(attempt) == attempt % Len(OVERPASS_ENDPOINTS)

\* Mutant: every attempt queries the requested radius.
RadiusNeverWidened(radius, attempt) == radius

\* Line 217: the radius attempt number `attempt` queries.
CurrentRadius(radius, attempt) == radius + (attempt * RadiusStep)

\* Mutant: the fallback map holds -1 for "unknown".
OrMinusOnes(last_counts) ==
    IF last_counts = None THEN [k \in KeySet |-> -1] ELSE last_counts

\* Python's `last_counts or {zeros}`: None is falsy, a dict of eight keys is not.
OrZeros(last_counts) == IF last_counts = None THEN ZeroCounts ELSE last_counts

\* Mutant: a failure of the last attempt is raised, as in location mode.
FetchRaisesLastError(attempt, last_counts, max_retries, outcome) ==
    LET parsed == IF outcome.kind = "ok"
                  THEN parse_overpass_counts(outcome.elements)
                  ELSE [raised |-> TRUE, counts |-> ZeroCounts]
        failed == parsed.raised
        remembered == IF failed THEN OrZeros(last_counts) ELSE parsed.counts
    IN  IF ~failed /\ SumCounts(parsed.counts) > 0
        THEN [returned |-> TRUE, raised |-> FALSE, value |-> parsed.counts,
              last_counts |-> last_counts]
        ELSE IF attempt + 1 < max_retries
        THEN [returned |-> FALSE, raised |-> FALSE, value |-> ZeroCounts,
              last_counts |-> remembered]
        ELSE [returned |-> ~failed, raised |-> failed, value |-> remembered,
              last_counts |-> remembered]

\* Mutant: a failed attempt ends the loop (no retry after a failure).
FetchGivesUpOnFailure(attempt, last_counts, max_retries, outcome) ==
    LET parsed == IF outcome.kind = "ok"
                  THEN parse_overpass_counts(outcome.elements)
                  ELSE [raised |-> TRUE, counts |-> ZeroCounts]
        failed == parsed.raised
        remembered == IF failed THEN OrZeros(last_counts) ELSE parsed.counts
    IN  IF ~failed /\ SumCounts(parsed.counts) > 0
        THEN [returned |-> TRUE, raised |-> FALSE, value |-> parsed.counts,
              last_counts |-> last_counts]
        ELSE IF ~failed /\ attempt + 1 < max_retries
        THEN [returned |-> FALSE, raised |-> FALSE, value |-> ZeroCounts,
              last_counts |-> remembered]
        ELSE [returned |-> TRUE, raised |-> FALSE, value |-> remembered,
              last_counts |-> remembered]

\* Mutant: a non-zero response is remembered, not returned at once.
FetchKeepsTrying(attempt, last_counts, max_retries, outcome) ==
    LET parsed == IF outcome.kind = "ok"
                  THEN parse_overpass_counts(outcome.elements)
                  ELSE [raised |-> TRUE, counts |-> ZeroCounts]
        failed == parsed.raised
        remembered == IF failed THEN OrZeros(last_counts) ELSE parsed.counts
    IN  IF attempt + 1 < max_retries
        THEN [returned |-> FALSE, raised |-> FALSE, value |-> ZeroCounts,
              last_counts |-> remembered]
        ELSE [returned |-> TRUE, raised |-> FALSE, value |-> remembered,
              last_counts |-> remembered]

\* Mutant: `total >= 0` for `total > 0`, so a zero total is accepted.
FetchAcceptsZero(attempt, last_counts, max_retries, outcome) ==
    LET parsed == IF outcome.kind = "ok"
                  THEN parse_overpass_counts(outcome.elements)
                  ELSE [raised |-> TRUE, counts |-> ZeroCounts]
        failed == parsed.raised
        remembered == IF failed THEN OrZeros(last_counts) ELSE parsed.counts
    IN  IF ~failed /\ SumCounts(parsed.counts) >= 0
        THEN [returned |-> TRUE, raised |-> FALSE, value |-> parsed.counts,
              last_counts |-> last_counts]
        ELSE IF attempt + 1 < max_retries
        THEN [returned |-> FALSE, raised |-> FALSE, value |-> ZeroCounts,
              last_counts |-> remembered]
        ELSE [returned |-> TRUE, raised |-> FALSE, value |-> OrZeros(remembered),
              last_counts |-> remembered]

\* Mutant: the loop makes one attempt more than max_retries.
FetchOneAttemptTooMany(attempt, last_counts, max_retries, outcome) ==
    LET parsed == IF outcome.kind = "ok"
                  THEN parse_overpass_counts(outcome.elements)
                  ELSE [raised |-> TRUE, counts |-> ZeroCounts]
        failed == parsed.raised
        remembered == IF failed THEN OrZeros(last_counts) ELSE parsed.counts
    IN  IF ~failed /\ SumCounts(parsed.counts) > 0
        THEN [returned |-> TRUE, raised |-> FALSE, value |-> parsed.counts,
              last_counts |-> last_counts]
        ELSE IF attempt < max_retries
        THEN [returned |-> FALSE, raised |-> FALSE, value |-> ZeroCounts,
              last_counts |-> remembered]
        ELSE [returned |-> TRUE, raised |-> FALSE, value |-> OrZeros(remembered),
              last_counts |-> remembered]

\* The body of the loop for attempt number `attempt`, given what the post came
\* to, and the code after the loop when this was the last attempt.
\* returned: the function returns `value`; raised: it raises; otherwise it
\* goes on to attempt + 1 with `last_counts`.
fetch_from_overpass(attempt, last_counts, max_retries, outcome) ==
    LET parsed == IF outcome.kind = "ok"
                  THEN parse_overpass_counts(outcome.elements)
                  ELSE [raised |-> TRUE, counts |-> ZeroCounts]
        failed == parsed.raised
        total  == SumCounts(parsed.counts)
        remembered == IF failed THEN OrZeros(last_counts) ELSE parsed.counts
    IN  IF ~failed /\ total > 0
        THEN [returned |-> TRUE, raised |-> FALSE, value |-> parsed.counts,
              last_counts |-> last_counts]
        ELSE IF attempt + 1 < max_retries
        THEN [returned |-> FALSE, raised |-> FALSE, value |-> ZeroCounts,
              last_counts |-> remembered]
        ELSE [returned |-> TRUE, raised |-> FALSE, value |-> OrZeros(remembered),
              last_counts |-> remembered]

---------------------------------------------------------------------------
(* get_infrastructure_for_area *)

Row(counts, t) == [counts |-> counts, last_updated |-> t]

\* Mutant: the TTL is left out of the expiry.
CacheValidWithoutTTL(infra, force_refresh, t) ==
    /\ infra # None
    /\ ~force_refresh
    /\ t < infra.last_updated

\* Lines 341-345: the cached row is returned as it is.
CacheValid(infra, force_refresh, t) ==
    /\ infra # None
    /\ ~force_refresh
    /\ t < infra.last_updated + CACHE_TTL_HOURS

\* Mutant: the UPDATE stamps the row with the last_updated the session loaded.
UpdateRowKeepsLoadedStamp(loaded, stored, counts, t) ==
    [counts |-> [k \in KeySet |->
                    IF counts[k] # loaded.counts[k] THEN counts[k]
                    ELSE stored.counts[k]],
     last_updated |-> loaded.last_updated]

\* Lines 374-377 and 386: the attributes of the row object this session loaded
\* are set and the session commits.  The unit of work writes the columns whose
\* new value differs from the value the session loaded (`loaded`); the other
\* columns of the stored row (`stored`) are not part of the UPDATE.
UpdateRow(loaded, stored, counts, t) ==
    [counts |-> [k \in KeySet |->
                    IF counts[k] # loaded.counts[k] THEN counts[k]
                    ELSE stored.counts[k]],
     last_updated |-> IF t # loaded.last_updated THEN t ELSE stored.last_updated]

\* Mutant: the new row is built and never added to the session.
WriteBackWithoutAdd(infra, stored, counts, t) ==
    IF infra # None
    THEN [raised |-> FALSE, row |-> UpdateRow(infra, stored, counts, t)]
    ELSE [raised |-> FALSE, row |-> stored]

\* Lines 373-388.  area_id is UNIQUE: an INSERT for an area that has a row by
\* now fails at commit (IntegrityError), and the call raises.
WriteBack(infra, stored, counts, t) ==
    IF infra # None
    THEN [raised |-> FALSE, row |-> UpdateRow(infra, stored, counts, t)]
    ELSE IF stored # None
    THEN [raised |-> TRUE, row |-> stored]
    ELSE [raised |-> FALSE, row |-> Row(counts, t)]

\* Lines 348-388: what the call does with what fetch_from_overpass came to.
\* kind "stale": the except branch returned the loaded row without writing.
AfterFetch(infra, stored, fetched, t) ==
    IF fetched.raised /\ infra # None
    THEN [kind |-> "stale", raised |-> FALSE, row |-> stored, infra |-> infra,
          counts |-> ZeroCounts]
    ELSE LET counts == IF fetched.raised THEN ZeroCounts ELSE fetched.value
             w == WriteBack(infra, stored, counts, t)
         IN  [kind |-> "write", raised |-> w.raised, row |-> w.row,
              infra |-> w.row, counts |-> counts]

---------------------------------------------------------------------------
(* fetch_facility_locations *)

DefaultMaxPerCategory == 50

CatKeys ==
    << "hospitals", "schools", "bus_stops", "metro_stations",
       "supermarkets", "restaurants", "gyms", "bars" >>

\* Coordinates are integers in units of 1e-7 degree.  An element has the keys
\* lat/lon when has_latlon, and a 'center' object when has_center.
Node(name, lat, lon) ==
    [type |-> "node", name |-> name, has_latlon |-> TRUE, lat |-> lat, lon |-> lon,
     has_center |-> FALSE, clat |-> 0, clon |-> 0]
Way(name, clat, clon) ==
    [type |-> "way", name |-> name, has_latlon |-> FALSE, lat |-> 0, lon |-> 0,
     has_center |-> TRUE, clat |-> clat, clon |-> clon]
WayNoCenter(name) ==
    [type |-> "way", name |-> name, has_latlon |-> FALSE, lat |-> 0, lon |-> 0,
     has_center |-> FALSE, clat |-> 0, clon |-> 0]
NodeNoCoord(name) ==
    [type |-> "node", name |-> name, has_latlon |-> FALSE, lat |-> 0, lon |-> 0,
     has_center |-> FALSE, clat |-> 0, clon |-> 0]

\* round(x, 6) of a coordinate given in units of 1e-7: the nearest multiple of
\* 10 (no sample coordinate ends in the digit 5, where the float decides).
Round6(v) == ((v + 5) \div 10) * 10

SubSeqOrEmpty(s, from, to) == IF from > to THEN <<>> ELSE SubSeq(s, from, to)

\* Mutant: every block has block_size elements; the remainder is in none.
BlockDropsRemainder(elements, i) ==
    LET n == Len(elements)
        block_size == n \div Len(CatKeys)
        start == i * block_size
        end == (i + 1) * block_size
    IN  SubSeqOrEmpty(elements, start + 1, end)

\* Lines 288-295: block i (0-based) of the element list.
Block(elements, i) ==
    LET n == Len(elements)
        block_size == n \div Len(CatKeys)
        start == i * block_size
        end == IF i + 1 < Len(CatKeys) THEN (i + 1) * block_size ELSE n
    IN  SubSeqOrEmpty(elements, start + 1, end)

Prefix(s, k) == SubSeqOrEmpty(s, 1, IF Len(s) < k THEN Len(s) ELSE k)

\* Lines 298-304: el['lat'] of an element that is not a way and has no lat.
RaisesKeyError(el) == el.type # "way" /\ ~el.has_latlon

Dropped(el) == el.type = "way" /\ ~el.has_center

Kept(el) == ~Dropped(el)

FacilityLocation(el, cat) ==
    [name |-> el.name, type |-> cat,
     lat |-> IF el.type = "way" THEN el.clat ELSE el.lat,
     lon |-> IF el.type = "way" THEN el.clon ELSE el.lon]

\* Lines 296-310 for one category.
Locate(block, cat, max_per_category) ==
    LET kept == SelectSeq(Prefix(block, max_per_category), Kept)
    IN  [i \in 1..Len(kept) |-> FacilityLocation(kept[i], cat)]

CoordKey(f) == <<Round6(f.lat), Round6(f.lon)>>

\* Mutant: of the records with one coordinate the last is kept.
RECURSIVE UniqueKeepsLast(_, _)
UniqueKeepsLast(fs, seen) ==
    IF fs = <<>> THEN <<>>
    ELSE IF \E j \in 2..Len(fs) : CoordKey(fs[j]) = CoordKey(Head(fs))
    THEN UniqueKeepsLast(Tail(fs), seen)
    ELSE <<Head(fs)>> \o UniqueKeepsLast(Tail(fs), seen)

\* Mutant: `seen` is emptied when a duplicate is dropped.
RECURSIVE UniqueForgetsSeen(_, _)
UniqueForgetsSeen(fs, seen) ==
    IF fs = <<>> THEN <<>>
    ELSE IF CoordKey(Head(fs)) \in seen THEN UniqueForgetsSeen(Tail(fs), {})
    ELSE <<Head(fs)>> \o UniqueForgetsSeen(Tail(fs), seen \cup {CoordKey(Head(fs))})

\* Lines 313-320: first-seen wins.
RECURSIVE Unique(_, _)
Unique(fs, seen) ==
    IF fs = <<>> THEN <<>>
    ELSE IF CoordKey(Head(fs)) \in seen THEN Unique(Tail(fs), seen)
    ELSE <<Head(fs)>> \o Unique(Tail(fs), seen \cup {CoordKey(Head(fs))})

\* Mutant: the list is cut to max_per_category after the duplicates are removed.
TruncatesAfterDedup(elements, max_per_category) ==
    LET raises == \E i \in 0..(Len(CatKeys) - 1) :
                     LET b == Block(elements, i)
                     IN  \E j \in 1..Len(b) : RaisesKeyError(b[j])
    IN  [raised |-> raises,
         cats |-> [i \in 1..Len(CatKeys) |->
                     IF raises THEN <<>>
                     ELSE Prefix(Unique(Locate(Block(elements, i - 1), CatKeys[i],
                                               Len(elements)), {}),
                                 max_per_category)]]

\* Lines 274-321: the categories of one response body, or the KeyError.
FacilityCats(elements, max_per_category) ==
    LET raises == \E i \in 0..(Len(CatKeys) - 1) :
                     LET b == Prefix(Block(elements, i), max_per_category)
                     IN  \E j \in 1..Len(b) : RaisesKeyError(b[j])
    IN  [raised |-> raises,
         cats |-> [i \in 1..Len(CatKeys) |->
                     IF raises THEN <<>>
                     ELSE Unique(Locate(Block(elements, i - 1), CatKeys[i],
                                        max_per_category), {})]]

NoCats == [i \in 1..Len(CatKeys) |-> <<>>]

\* A body whose last block holds one element more than max_per_category: 44
\* elements in each of the first seven blocks and 51 in the last, of which
\* the second is within 1e-7 degree of the first.
BigBlock == DefaultMaxPerCategory - (Len(CatKeys) - 2)
BigBodyLen == Len(CatKeys) * BigBlock + (Len(CatKeys) - 1)
BigBody ==
    [j \in 1..BigBodyLen |->
        IF j = (Len(CatKeys) - 1) * BigBlock + 2
        THEN Node("n", 174000000 + 100 * (j - 1) + 1, 783000000)
        ELSE Node("n", 174000000 + 100 * j, 783000000)]

\* Bodies an endpoint may answer a locations query with: none or a few
\* elements (all in the last block), coordinates that round to the same six
\* decimals, a way without a centre, a node without lat/lon, nine elements
\* (one in each of the first seven blocks, two in the last) where the first
\* two blocks hold the same coordinate, and the body above.
LocationBodies ==
    { <<>>,
      <<Node("a", 174401234, 783489001), Node("b", 174401236, 783489004),
        Way("c", 174483000, 783915000)>>,
      <<WayNoCenter("d"), Node("e", 174435000, 783772000)>>,
      <<NodeNoCoord("f")>>,
      <<Node("g", 174435000, 783772000), NodeNoCoord("f")>>,
      <<Node("a", 174401234, 783489001), Node("h", 174401233, 783489002),
        Node("q", 174401232, 783489003), Node("e", 174435000, 783772000)>>,
      <<Node("a", 174401234, 783489001), Node("b", 174401234, 783489001),
        Node("i", 174410000, 783400000), Node("j", 174420000, 783400000),
        Node("k", 174430000, 783400000), Node("l", 174440000, 783400000),
        Node("m", 174450000, 783400000), Way("c", 174483000, 783915000),
        Way("o", 174483001, 783915001)>>,
      BigBody }

LocationOutcomes ==
    {[kind |-> "ok", elements |-> b] : b \in LocationBodies}
        \cup {[kind |-> "http_error", elements |-> <<>>]}

\* Mutant: location mode widens the radius as count mode does.
LocationsRadiusWidened(radius, attempt) == CurrentRadius(radius, attempt)

\* Lines 265 and 271: the query is built once, before the loop, from the
\* radius passed in, and every attempt posts that query.
LocationsRadius(radius, attempt) == radius

\* Mutant: when the last attempt fails the empty map is returned.
LocationsEmptyOnExhaustion(attempt, max_per_category, max_retries, outcome) ==
    LET got == IF outcome.kind = "ok"
               THEN FacilityCats(outcome.elements, max_per_category)
               ELSE [raised |-> TRUE, cats |-> NoCats]
        error == IF outcome.kind = "ok" THEN "key_error" ELSE outcome.kind
    IN  IF ~got.raised
        THEN [returned |-> TRUE, raised |-> FALSE, cats |-> got.cats,
              last_error |-> "none"]
        ELSE [returned |-> ~(attempt + 1 < max_retries), raised |-> FALSE,
              cats |-> NoCats, last_error |-> error]

\* Mutant: a response without any facility is retried, as a zero total is in
\* count mode.
LocationsRetryOnEmpty(attempt, max_per_category, max_retries, outcome) ==
    LET got == IF outcome.kind = "ok"
               THEN FacilityCats(outcome.elements, max_per_category)
               ELSE [raised |-> TRUE, cats |-> NoCats]
        error == IF outcome.kind = "ok" THEN "key_error" ELSE outcome.kind
    IN  IF ~got.raised /\ got.cats = NoCats /\ attempt + 1 < max_retries
        THEN [returned |-> FALSE, raised |-> FALSE, cats |-> NoCats,
              last_error |-> "none"]
        ELSE IF ~got.raised
        THEN [returned |-> TRUE, raised |-> FALSE, cats |-> got.cats,
              last_error |-> "none"]
        ELSE [returned |-> FALSE, raised |-> ~(attempt + 1 < max_retries),
              cats |-> NoCats, last_error |-> error]

\* One pass of the loop of lines 267-326.  returned: the function returns
\* `cats`; raised: the loop is over and `raise last_error` runs.
fetch_facility_locations(attempt, max_per_category, max_retries, outcome) ==
    LET got == IF outcome.kind = "ok"
               THEN FacilityCats(outcome.elements, max_per_category)
               ELSE [raised |-> TRUE, cats |-> NoCats]
        error == IF outcome.kind = "ok" THEN "key_error" ELSE outcome.kind
    IN  IF ~got.raised
        THEN [returned |-> TRUE, raised |-> FALSE, cats |-> got.cats,
              last_error |-> "none"]
        ELSE [returned |-> FALSE, raised |-> ~(attempt + 1 < max_retries),
              cats |-> NoCats, last_error |-> error]

---------------------------------------------------------------------------
(* Scoring engine (scoring_engine.py).                                     *)
(* Decimal numbers are integers in the unit of the last decimal place the  *)
(* code keeps: category scores and the final score in hundredths (round(x, *)
(* 2)), the weights before rescaling in hundredths (the literals of the    *)
(* rules), the returned weights in ten-thousandths (round(x, 4)).  Division *)
(* and rounding are exact, with Python's round-half-to-even; the last-bit   *)
(* error of binary floating point is not represented.                      *)

Categories == <<"transport", "healthcare", "education", "lifestyle", "grocery">>

CategorySet == {Categories[i] : i \in 1..Len(Categories)}

\* The value DEFAULT_WEIGHTS is created with, in hundredths.
BaseWeights ==
    [transport |-> 25, healthcare |-> 20, education |-> 20, lifestyle |-> 20,
     grocery |-> 15]

SCORE_CAPS ==
    [transport |-> 100, healthcare |-> 80, education |-> 60, lifestyle |-> 100,
     grocery |-> 40]

TransportFloor == 5

\* round(n / d) to the nearest integer, a tie to the even one; n >= 0, d > 0.
RoundHalfEven(n, d) ==
    LET q == n \div d
        r == n % d
    IN  IF 2 * r > d \/ (2 * r = d /\ q % 2 = 1) THEN q + 1 ELSE q

Min(a, b) == IF a < b THEN a ELSE b

SumOver(w) == SumSeq([i \in 1..Len(Categories) |-> w[Categories[i]]])

\* Mutant: bus stops count against transport.
RawBusSubtracted(infra) ==
    [transport |-> infra.metro_count * 5 - infra.bus_stop_count * 2,
     healthcare |-> infra.hospital_count * 4,
     education |-> infra.school_count * 3,
     lifestyle |-> infra.restaurant_count * 2,
     grocery |-> infra.supermarket_count * 2]

\* Mutant: gyms and bars count as lifestyle.
RawLifestyleCountsGyms(infra) ==
    [transport |-> infra.metro_count * 5 + infra.bus_stop_count * 2,
     healthcare |-> infra.hospital_count * 4,
     education |-> infra.school_count * 3,
     lifestyle |-> infra.restaurant_count * 2 + infra.gym_count + infra.bar_count,
     grocery |-> infra.supermarket_count * 2]

compute_raw_scores(infra) ==
    [transport |-> infra.metro_count * 5 + infra.bus_stop_count * 2,
     healthcare |-> infra.hospital_count * 4,
     education |-> infra.school_count * 3,
     lifestyle |-> infra.restaurant_count * 2,
     grocery |-> infra.supermarket_count * 2]

\* Mutant: the normalized score is not clamped to 100.
NormalizeUnclamped(raw) ==
    [k \in CategorySet |->
        IF SCORE_CAPS[k] > 0
        THEN RoundHalfEven(raw[k] * 100 * 100, SCORE_CAPS[k])
        ELSE 0]

\* min((value / cap) * 100, 100), rounded to two decimals.
normalize_scores(raw) ==
    [k \in CategorySet |->
        IF SCORE_CAPS[k] > 0
        THEN RoundHalfEven(Min(raw[k] * 100 * 100, 100 * 100 * SCORE_CAPS[k]),
                           SCORE_CAPS[k])
        ELSE 0]

\* The rules of generate_weights in the order of the code, by the profile
\* field each one tests.
RuleOrder ==
    << "has_parents", "has_elderly", "has_children", "has_vehicle",
       "employment_status", "marital_status" >>

\* Mutant: the vehicle rule sets the transport weight to 0.17 instead of
\* taking 0.08 off it.
VehicleSetsTransport(transport) == BaseWeights.transport - 8

\* Mutant: the vehicle rule takes 0.22 off, which the floor stops at 0.05.
VehicleDeductsMore(transport) ==
    IF transport - 22 < TransportFloor THEN TransportFloor ELSE transport - 22

\* weights["transport"] -= 0.08, and not below the floor.
AfterVehicle(transport) ==
    IF transport - 8 < TransportFloor THEN TransportFloor ELSE transport - 8

Adjusted(st, w, text) == [weights |-> w, adjustments |-> Append(st.adjustments, text)]

\* One rule applied to the weights and the trail so far.
ApplyRule(rule, profile, st) ==
    LET w == st.weights
    IN  CASE rule = "has_parents" ->
               IF profile.has_parents
               THEN Adjusted(st, [w EXCEPT !.healthcare = @ + 10],
                        "Living with parents -> Healthcare weight increased (+0.10)")
               ELSE st
          [] rule = "has_elderly" ->
               IF profile.has_elderly
               THEN Adjusted(st, [w EXCEPT !.healthcare = @ + 12],
                        "Lives with elderly -> Healthcare weight increased (+0.12)")
               ELSE st
          [] rule = "has_children" ->
               IF profile.has_children
               THEN Adjusted(st, [w EXCEPT !.education = @ + 10],
                        "Has children -> Education weight increased (+0.10)")
               ELSE st
          [] rule = "has_vehicle" ->
               IF profile.has_vehicle
               THEN Adjusted(st, [w EXCEPT !.transport = AfterVehicle(@)],
                        "Has vehicle -> Transport weight decreased (-0.08)")
               ELSE st
          [] rule = "employment_status" ->
               IF profile.employment_status = "working"
               THEN Adjusted(st, [w EXCEPT !.transport = @ + 8],
                        "Employed (working) -> Transport weight increased (+0.08)")
               ELSE IF profile.employment_status = "student"
               THEN Adjusted(st, [w EXCEPT !.education = @ + 5, !.transport = @ + 3],
                        "Student -> Education weight increased (+0.05), Transport +0.03")
               ELSE st
          [] rule = "marital_status" ->
               IF profile.marital_status = "single"
               THEN Adjusted(st, [w EXCEPT !.lifestyle = @ + 8],
                        "Single -> Lifestyle weight increased (+0.08)")
               ELSE IF profile.marital_status = "married"
               THEN Adjusted(st, [w EXCEPT !.education = @ + 8, !.grocery = @ + 4],
                        "Married -> Education weight increased (+0.08), Grocery +0.04")
               ELSE st

RECURSIVE ApplyRules(_, _, _)
ApplyRules(order, profile, st) ==
    IF order = <<>> THEN st
    ELSE ApplyRules(Tail(order), profile, ApplyRule(Head(order), profile, st))

\* Mutant: the weights are divided by the total of the base vector.
RescaleByBaseTotal(w) ==
    [k \in CategorySet |-> RoundHalfEven(w[k] * 100 * 100, SumOver(BaseWeights))]

\* weights = {k: round(v / total, 4)}
Rescale(w) ==
    LET total == SumOver(w)
    IN  IF total > 0
        THEN [k \in CategorySet |-> RoundHalfEven(w[k] * 100 * 100, total)]
        ELSE [k \in CategorySet |-> w[k] * 100]

\* Mutant: the rules work on DEFAULT_WEIGHTS itself, not on a copy of it.
GenerateWeightsInPlace(profile, default_weights) ==
    IF profile = None
    THEN [weights |-> [k \in CategorySet |-> default_weights[k] * 100],
          adjustments |-> <<"Using default weights (no profile)">>,
          default_weights |-> default_weights]
    ELSE LET st == ApplyRules(RuleOrder, profile,
                       [weights |-> default_weights, adjustments |-> <<>>])
         IN  [weights |-> Rescale(st.weights),
              adjustments |->
                  IF st.adjustments = <<>>
                  THEN <<"Profile exists but no specific adjustments triggered">>
                  ELSE st.adjustments,
              default_weights |-> st.weights]

\* Mutant: the adjusted weights are returned without rescaling.
GenerateWeightsUnscaled(profile, default_weights) ==
    IF profile = None
    THEN [weights |-> [k \in CategorySet |-> default_weights[k] * 100],
          adjustments |-> <<"Using default weights (no profile)">>,
          default_weights |-> default_weights]
    ELSE LET st == ApplyRules(RuleOrder, profile,
                       [weights |-> default_weights, adjustments |-> <<>>])
         IN  [weights |-> [k \in CategorySet |-> st.weights[k] * 100],
              adjustments |->
                  IF st.adjustments = <<>>
                  THEN <<"Profile exists but no specific adjustments triggered">>
                  ELSE st.adjustments,
              default_weights |-> default_weights]

\* generate_weights: the weights and the trail it returns, and the value of
\* DEFAULT_WEIGHTS when it returns (the rules work on a copy).
generate_weights(profile, default_weights) ==
    IF profile = None
    THEN [weights |-> [k \in CategorySet |-> default_weights[k] * 100],
          adjustments |-> <<"Using default weights (no profile)">>,
          default_weights |-> default_weights]
    ELSE LET st == ApplyRules(RuleOrder, profile,
                       [weights |-> default_weights, adjustments |-> <<>>])
         IN  [weights |-> Rescale(st.weights),
              adjustments |->
                  IF st.adjustments = <<>>
                  THEN <<"Profile exists but no specific adjustments triggered">>
                  ELSE st.adjustments,
              default_weights |-> default_weights]

\* Mutant: every category weighs 0.20.
EqualWeightSum(normalized, weights) ==
    SumSeq([i \in 1..Len(Categories) |-> normalized[Categories[i]] * 2000])

\* sum(normalized[k] * weights[k]), in millionths.
WeightedSum(normalized, weights) ==
    SumSeq([i \in 1..Len(Categories) |->
               normalized[Categories[i]] * weights[Categories[i]]])

\* Mutant: the sum is not clamped.
FinalUnclamped(final) == final

\* Line 161: min(final, 100), on a sum in millionths.
ClampFinal(final) == Min(final, 100 * 100 * 100 * 100)

\* compute_final_score: value is the dict it returns, default_weights the
\* value of DEFAULT_WEIGHTS when it returns.
compute_final_score(infra, profile, default_weights) ==
    LET raw == compute_raw_scores(infra)
        normalized == normalize_scores(raw)
        gw == generate_weights(profile, default_weights)
        final == WeightedSum(normalized, gw.weights)
    IN  [value |->
            [category_scores |-> normalized,
             weights_used |-> gw.weights,
             final_score |-> RoundHalfEven(ClampFinal(final), 100 * 100),
             infrastructure |->
                 [hospitals |-> infra.hospital_count,
                  schools |-> infra.school_count,
                  bus_stops |-> infra.bus_stop_count,
                  metro_stations |-> infra.metro_count,
                  supermarkets |-> infra.supermarket_count,
                  restaurants |-> infra.restaurant_count,
                  gyms |-> infra.gym_count,
                  bars |-> infra.bar_count],
             profile_context |->
                 IF profile # None
                 THEN [marital_status |-> profile.marital_status,
                       has_parents |-> profile.has_parents,
                       employment_status |-> profile.employment_status,
                       has_vehicle |-> profile.has_vehicle,
                       has_elderly |-> profile.has_elderly,
                       has_children |-> profile.has_children,
                       income_range |-> profile.income_range,
                       adjustments |-> gw.adjustments]
                 ELSE None],
         default_weights |-> gw.default_weights]

\* _generate_fallback (gemini_service.py): max(d, key=d.get) and min(d, key=
\* d.get) give the first key, in the order of the dict, whose value is the
\* greatest and the least.
ArgBest(scores) ==
    Categories[CHOOSE i \in 1..Len(Categories) :
        /\ \A j \in 1..Len(Categories) : scores[Categories[j]] <= scores[Categories[i]]
        /\ \A j \in 1..(i - 1) : scores[Categories[j]] < scores[Categories[i]]]

\* Mutant: of the categories with the least score, the last one is the worst.
ArgWorstLast(scores) ==
    Categories[CHOOSE i \in 1..Len(Categories) :
        /\ \A j \in 1..Len(Categories) : scores[Categories[j]] >= scores[Categories[i]]
        /\ \A j \in (i + 1)..Len(Categories) :
              scores[Categories[j]] > scores[Categories[i]]]

ArgWorst(scores) ==
    Categories[CHOOSE i \in 1..Len(Categories) :
        /\ \A j \in 1..Len(Categories) : scores[Categories[j]] >= scores[Categories[i]]
        /\ \A j \in 1..(i - 1) : scores[Categories[j]] > scores[Categories[i]]]

\* Mutant: a score on a threshold falls in the tier below.
TierAboveThreshold(final_score) ==
    IF final_score > 75 * 100 THEN "a strong choice"
    ELSE IF final_score > 55 * 100 THEN "a decent option"
    ELSE IF final_score > 35 * 100 THEN "a below-average option"
    ELSE "not well-suited"

\* Lines 105-112: the tier of sentence 1.
Tier(final_score) ==
    IF final_score >= 75 * 100 THEN "a strong choice"
    ELSE IF final_score >= 55 * 100 THEN "a decent option"
    ELSE IF final_score >= 35 * 100 THEN "a below-average option"
    ELSE "not well-suited"

\* Mutant: every caveat whose condition holds is appended.
EveryCaveat(profile, category_scores) ==
    IF profile = None THEN <<>>
    ELSE (IF profile.has_elderly /\ category_scores.healthcare < 50 * 100
          THEN <<"healthcare">> ELSE <<>>)
         \o (IF profile.has_children /\ category_scores.education < 50 * 100
             THEN <<"education">> ELSE <<>>)
         \o (IF ~profile.has_vehicle /\ category_scores.transport < 50 * 100
             THEN <<"transport">> ELSE <<>>)

\* Lines 127-133: the sentences the profile adds to `parts`, each by the
\* category it is about.
Caveats(profile, category_scores) ==
    IF profile = None THEN <<>>
    ELSE IF profile.has_elderly /\ category_scores.healthcare < 50 * 100
    THEN <<"healthcare">>
    ELSE IF profile.has_children /\ category_scores.education < 50 * 100
    THEN <<"education">>
    ELSE IF ~profile.has_vehicle /\ category_scores.transport < 50 * 100
    THEN <<"transport">>
    ELSE <<>>

\* The text by its parts: the tier of sentence 1, which sentence on strengths
\* it has and about which categories, and the caveats drawn from the profile.
generate_fallback(final_score, category_scores, profile) ==
    LET best == ArgBest(category_scores)
        worst == ArgWorst(category_scores)
    IN  [tier |-> Tier(final_score),
         sentence |-> IF best # worst THEN "strongest_weakest" ELSE "performs_best",
         best |-> best,
         worst |-> worst,
         caveats |-> Caveats(profile, category_scores)]

\* str.strip() on a text given as the sequence of its characters.
IsSpace(c) == c = " "

RECURSIVE LStrip(_)
LStrip(t) == IF t # <<>> /\ IsSpace(Head(t)) THEN LStrip(Tail(t)) ELSE t

RECURSIVE RStrip(_)
RStrip(t) ==
    IF t # <<>> /\ IsSpace(t[Len(t)]) THEN RStrip(SubSeq(t, 1, Len(t) - 1)) ELSE t

Strip(t) == RStrip(LStrip(t))

\* Mutant: an HTTP error status other than 429 is raised to the caller.
GeminiSurfacesError(outcome, body) ==
    LET fallback == [source |-> "fallback",
                     text |-> generate_fallback(body.final_score,
                                  body.category_scores, body.profile_context)]
        text == IF outcome.candidates = "missing" THEN <<>> ELSE outcome.text
    IN  IF outcome.kind = "transport_error" THEN [raised |-> FALSE, value |-> fallback]
        ELSE IF outcome.status = 429 THEN [raised |-> FALSE, value |-> fallback]
        ELSE IF outcome.status >= 400 THEN [raised |-> TRUE, value |-> None]
        ELSE IF ~outcome.parses THEN [raised |-> FALSE, value |-> fallback]
        ELSE IF outcome.candidates = "empty" THEN [raised |-> FALSE, value |-> fallback]
        ELSE IF text # <<>> /\ Strip(text) # <<>>
        THEN [raised |-> FALSE, value |-> [source |-> "gemini", text |-> Strip(text)]]
        ELSE [raised |-> FALSE, value |-> fallback]

\* get_gemini_recommendation from the answer to its post: the post fails
\* (except), status 429, another error status (raise_for_status, except), a
\* body that is not JSON (except), an empty list of candidates (IndexError,
\* except), no candidates key (text ""), and the text of the first candidate.
get_gemini_recommendation(outcome, body) ==
    LET fallback == [source |-> "fallback",
                     text |-> generate_fallback(body.final_score,
                                  body.category_scores, body.profile_context)]
        text == IF outcome.candidates = "missing" THEN <<>> ELSE outcome.text
    IN  IF outcome.kind = "transport_error" THEN [raised |-> FALSE, value |-> fallback]
        ELSE IF outcome.status = 429 THEN [raised |-> FALSE, value |-> fallback]
        ELSE IF outcome.status >= 400 THEN [raised |-> FALSE, value |-> fallback]
        ELSE IF ~outcome.parses THEN [raised |-> FALSE, value |-> fallback]
        ELSE IF outcome.candidates = "empty" THEN [raised |-> FALSE, value |-> fallback]
        ELSE IF text # <<>> /\ Strip(text) # <<>>
        THEN [raised |-> FALSE, value |-> [source |-> "gemini", text |-> Strip(text)]]
        ELSE [raised |-> FALSE, value |-> fallback]

---------------------------------------------------------------------------
(* State *)

\* current_user of a request that carries no valid token.
NoUser == "anonymous"

\* A request's local variables.
IdleFrame ==
    [route |-> "none", area |-> 0, force_refresh |-> FALSE,
     infra |-> None, radius |-> 0, attempt |-> 0, last_counts |-> None,
     cats |-> NoCats, user |-> NoUser, body |-> None]

\* How a request ended.  kind: the handler returned or raised; hit: by the
\* cache-hit return; fetch, fetched: how fetch_from_overpass ended and what it
\* returned; wrote: the row was committed; infra: the row the call returned;
\* error: the exception the handler raised; score: what compute_final_score
\* returned to the route; recommendation: the text of the recommend route.
NoResult ==
    [kind |-> "none", hit |-> FALSE, fetch |-> "none", fetched |-> ZeroCounts,
     wrote |-> FALSE, infra |-> None, error |-> "none", score |-> None,
     recommendation |-> None]

FetchEnd(r) == IF r.raised THEN "raised" ELSE "returned"

\* What the log keeps of an upstream answer: a body with a non-zero total
\* ("nonzero", with its counts), a body with a zero total ("zero"), or a
\* failure by its kind.
Answer(mode, outcome) ==
    LET parsed == parse_overpass_counts(outcome.elements)
    IN  IF outcome.kind # "ok" THEN [status |-> outcome.kind, counts |-> ZeroCounts]
        ELSE IF mode = "locations"
        THEN [status |-> IF FacilityCats(outcome.elements, DefaultMaxPerCategory).raised
                         THEN "key_error" ELSE "ok",
              counts |-> ZeroCounts]
        ELSE IF parsed.raised THEN [status |-> "parse_error", counts |-> ZeroCounts]
        ELSE [status |-> IF SumCounts(parsed.counts) > 0 THEN "nonzero" ELSE "zero",
              counts |-> parsed.counts]

LogEntry(mode, attempt, radius, outcome) ==
    [mode |-> mode, attempt |-> attempt,
     endpoint |-> OVERPASS_ENDPOINTS[EndpointIndex(attempt) + 1],
     radius |-> radius, answer |-> Answer(mode, outcome)]

\* The users whose token the scoring routes may be called with.
Users == {"user"}

\* Rows that infrastructure_data may hold from an earlier run of the server.
PersistedRows ==
    {None, Row(parse_overpass_counts(CountEls(<<2, 1, 3, 1, 1, 4, 1, 2>>)).counts, 0)}

\* The state after startup: create_all and seed_areas leave the areas in place
\* and do not touch infrastructure_data, which is empty on a first start and
\* otherwise holds what earlier runs stored; no request has arrived.
Init ==
    /\ db \in [Areas -> PersistedRows]
    /\ now = 0
    /\ pc = [p \in Requests |-> "idle"]
    /\ frame = [p \in Requests |-> IdleFrame]
    /\ log = [p \in Requests |-> <<>>]
    /\ result = [p \in Requests |-> NoResult]
    /\ profiles = [u \in Users |-> None]
    /\ DEFAULT_WEIGHTS = BaseWeights

AreaRadius(a) == IF SeedRadius[a] # 0 THEN SeedRadius[a] ELSE DefaultRadius

\* get_infrastructure_for_area up to its first await (lines 338-353): the row
\* is loaded, and either returned (cache hit) or the fetch begins.
EnterInfrastructure(route, a, force_refresh, cats) ==
    LET infra == db[a]
    IN  IF CacheValid(infra, force_refresh, now)
        THEN [pc |-> "done",
              frame |-> [IdleFrame EXCEPT !.route = route, !.area = a,
                            !.force_refresh = force_refresh, !.infra = infra,
                            !.cats = cats],
              result |-> [NoResult EXCEPT !.kind = "return", !.hit = TRUE,
                             !.infra = infra]]
        ELSE [pc |-> "fetching",
              frame |-> [IdleFrame EXCEPT !.route = route, !.area = a,
                            !.force_refresh = force_refresh, !.infra = infra,
                            !.radius = AreaRadius(a), !.cats = cats],
              result |-> NoResult]

\* Requests are numbered in the order they arrive.  When one arrives, the
\* requests that are over by then are forgotten: their coroutines are gone.
IsOver(q) == pc[q] \in {"done", "failed", "over"}

Enter(p, entered) ==
    /\ pc[p] = "idle"
    /\ \A q \in Requests : q < p => pc[q] # "idle"
    /\ pc' = [q \in Requests |->
                IF q = p THEN entered.pc ELSE IF IsOver(q) THEN "over" ELSE pc[q]]
    /\ frame' = [q \in Requests |->
                IF q = p THEN entered.frame ELSE IF IsOver(q) THEN IdleFrame
                ELSE frame[q]]
    /\ result' = [q \in Requests |->
                IF q = p THEN entered.result ELSE IF IsOver(q) THEN NoResult
                ELSE result[q]]
    /\ log' = [q \in Requests |-> IF q = p \/ IsOver(q) THEN <<>> ELSE log[q]]
    /\ UNCHANGED <<db, now, profiles>>

\* The arrival of a request that does not get as far as the scoring engine
\* before its first await.
Arrive(p, entered) == Enter(p, entered) /\ UNCHANGED DEFAULT_WEIGHTS

\* GET /areas/{area_id}/infrastructure
get_area_infrastructure(p, a) ==
    Arrive(p, EnterInfrastructure("infrastructure", a, FALSE, NoCats))

\* Mutant: the locations route forces a refresh for no area.
LocationsNeverForced(p, a) ==
    /\ a \in MAIN_AREA_IDS
    /\ Arrive(p, [pc |-> "locating",
                  frame |-> [IdleFrame EXCEPT !.route = "locations", !.area = a,
                                !.force_refresh = FALSE,
                                !.radius = AreaRadius(a)],
                  result |-> NoResult])

\* GET /areas/{area_id}/infrastructure/locations, up to the first post of
\* fetch_facility_locations.
get_area_infrastructure_locations(p, a) ==
    /\ a \in MAIN_AREA_IDS
    /\ Arrive(p, [pc |-> "locating",
                  frame |-> [IdleFrame EXCEPT !.route = "locations", !.area = a,
                                !.force_refresh = (a = ForceRefreshArea),
                                !.radius = AreaRadius(a)],
                  result |-> NoResult])

\* An answer to a post of fetch_facility_locations: the rest of the loop body,
\* and on success the route's call of get_infrastructure_for_area.
LocationsResponse(p, outcome) ==
    LET f == frame[p]
        r == fetch_facility_locations(f.attempt, DefaultMaxPerCategory,
                                      DefaultMaxRetries, outcome)
        entered == EnterInfrastructure("locations", f.area, f.force_refresh, r.cats)
    IN  /\ pc[p] = "locating"
        /\ log' = [log EXCEPT ![p] =
               Append(@, LogEntry("locations", f.attempt,
                                  LocationsRadius(f.radius, f.attempt), outcome))]
        /\ IF r.returned
           THEN /\ pc' = [pc EXCEPT ![p] = entered.pc]
                /\ frame' = [frame EXCEPT ![p] = entered.frame]
                /\ result' = [result EXCEPT ![p] = entered.result]
           ELSE IF r.raised
           THEN /\ pc' = [pc EXCEPT ![p] = "failed"]
                /\ result' = [result EXCEPT ![p] =
                      [NoResult EXCEPT !.kind = "raise", !.error = r.last_error]]
                /\ UNCHANGED frame
           ELSE /\ frame' = [frame EXCEPT ![p].attempt = f.attempt + 1]
                /\ UNCHANGED <<pc, result>>
        /\ UNCHANGED <<db, now, profiles, DEFAULT_WEIGHTS>>

\* Mutant: the custom score goes through the cache of an area.
CustomScoreThroughCache(p, radius) ==
    Arrive(p, EnterInfrastructure("custom", CHOOSE a \in Areas : TRUE, FALSE, NoCats))

\* GET /areas/score/custom, up to the first post of fetch_from_overpass.
get_custom_score(p, radius) ==
    Arrive(p, [pc |-> "fetching",
               frame |-> [IdleFrame EXCEPT !.route = "custom", !.radius = radius],
               result |-> NoResult])

\* The profile a scoring route finds for its caller (none for a caller without
\* a token, or without a profile), and its call of compute_final_score.
ProfileOf(user) == IF user = NoUser THEN None ELSE profiles[user]

Scored(counts, user) == compute_final_score(counts, ProfileOf(user), DEFAULT_WEIGHTS)

\* GET /areas/{area_id}/score: to the end on a cache hit, else up to the first
\* post of fetch_from_overpass.
get_area_score(p, a, user) ==
    LET e == EnterInfrastructure("score", a, FALSE, NoCats)
        scored == Scored(e.result.infra.counts, user)
    IN  IF e.pc = "done"
        THEN /\ Enter(p, [pc |-> "done",
                          frame |-> [e.frame EXCEPT !.user = user],
                          result |-> [e.result EXCEPT !.score = scored.value]])
             /\ DEFAULT_WEIGHTS' = scored.default_weights
        ELSE /\ Enter(p, [pc |-> "fetching",
                          frame |-> [e.frame EXCEPT !.user = user],
                          result |-> e.result])
             /\ UNCHANGED DEFAULT_WEIGHTS

\* POST /areas/score/recommend with a body, up to the post to Gemini.
get_ai_recommendation(p, body) ==
    Arrive(p, [pc |-> "recommending",
               frame |-> [IdleFrame EXCEPT !.route = "recommend", !.body = body],
               result |-> NoResult])

\* The body of a client that posts the score request q was answered with.
ScoreReturned(q, body) ==
    /\ pc[q] = "done"
    /\ result[q].score # None
    /\ body = result[q].score

\* Bodies a client may post of its own: final scores on, just under and away
\* from the thresholds of the tiers, the three category scores the caveats
\* look at just under 50 or at 50, and no profile or one with each combination
\* of the three fields the caveats look at.
TierLevels == {0, 3499, 3500, 5499, 5500, 7499, 7500, 10000}

CaveatLevels == {4999, 5000}

ClientProfiles ==
    {None} \cup
    [marital_status : {"single"}, has_parents : {FALSE},
     employment_status : {"working"}, has_vehicle : BOOLEAN, has_elderly : BOOLEAN,
     has_children : BOOLEAN, income_range : {"prefer_not_to_say"},
     adjustments : {<<>>}]

ClientBody(f, t, h, e, pr) ==
    [final_score |-> f,
     category_scores |-> [transport |-> t, healthcare |-> h, education |-> e,
                          lifestyle |-> 1000, grocery |-> 1000],
     infrastructure |-> compute_final_score(ZeroCounts, None, BaseWeights).value.infrastructure,
     weights_used |-> [k \in CategorySet |-> BaseWeights[k] * 100],
     profile_context |-> pr]

ClientBodies ==
    {ClientBody(f, 5000, 5000, 5000, None) : f \in TierLevels}
        \cup {ClientBody(5000, t, h, e, pr) :
                 t \in CaveatLevels, h \in CaveatLevels, e \in CaveatLevels,
                 pr \in ClientProfiles}

\* What the post to Gemini can come to.
Reply(status, parses, candidates, text) ==
    [kind |-> "response", status |-> status, parses |-> parses,
     candidates |-> candidates, text |-> text]

GeminiTexts == {<<>>, <<" ", " ">>, <<"O", "k">>, <<" ", "O", "k", " ">>}

GeminiOutcomes ==
    {Reply(200, TRUE, "one", t) : t \in GeminiTexts}
        \cup {Reply(429, TRUE, "one", <<"O", "k">>),
              Reply(500, FALSE, "missing", <<>>),
              Reply(200, FALSE, "missing", <<>>),
              Reply(200, TRUE, "empty", <<>>),
              Reply(200, TRUE, "missing", <<>>),
              [kind |-> "transport_error", status |-> 0, parses |-> FALSE,
               candidates |-> "missing", text |-> <<>>]}

\* The post to Gemini as an entry of the requests made upstream.
GeminiEntry(outcome) ==
    [mode |-> "gemini", attempt |-> 1, endpoint |-> "gemini", radius |-> 0,
     answer |-> outcome]

GeminiResponse(p, outcome) ==
    LET r == get_gemini_recommendation(outcome, frame[p].body)
    IN  /\ pc[p] = "recommending"
        /\ pc' = [pc EXCEPT ![p] = IF r.raised THEN "failed" ELSE "done"]
        /\ result' = [result EXCEPT ![p] =
              [NoResult EXCEPT !.kind = IF r.raised THEN "raise" ELSE "return",
                   !.error = IF r.raised THEN "gemini_error" ELSE "none",
                   !.recommendation = r.value]]
        /\ log' = [log EXCEPT ![p] = Append(@, GeminiEntry(outcome))]
        /\ UNCHANGED <<db, now, frame, profiles, DEFAULT_WEIGHTS>>

\* An answer to a post of fetch_from_overpass: the rest of the loop body, and
\* when the function returns, the rest of its caller.
CountsResponse(p, outcome) ==
    LET f == frame[p]
        r == fetch_from_overpass(f.attempt, f.last_counts, DefaultMaxRetries, outcome)
        af == AfterFetch(f.infra, db[f.area], r, now)
        custom == Scored(IF r.raised THEN ZeroCounts ELSE r.value, f.user)
        scored == Scored(af.infra.counts, f.user)
    IN  /\ pc[p] = "fetching"
        /\ log' = [log EXCEPT ![p] =
               Append(@, LogEntry("count", f.attempt,
                                  CurrentRadius(f.radius, f.attempt), outcome))]
        /\ IF ~r.returned /\ ~r.raised
           THEN /\ frame' = [frame EXCEPT ![p].attempt = f.attempt + 1,
                                          ![p].last_counts = r.last_counts]
                /\ UNCHANGED <<pc, result, db, DEFAULT_WEIGHTS>>
           ELSE IF f.route = "custom"
           THEN /\ pc' = [pc EXCEPT ![p] = "done"]
                /\ result' = [result EXCEPT ![p] =
                      [NoResult EXCEPT !.kind = "return", !.fetch = FetchEnd(r),
                           !.fetched = r.value, !.score = custom.value]]
                /\ frame' = [frame EXCEPT ![p].last_counts = r.last_counts]
                /\ DEFAULT_WEIGHTS' = custom.default_weights
                /\ UNCHANGED db
           ELSE /\ pc' = [pc EXCEPT ![p] = IF af.raised THEN "failed" ELSE "done"]
                /\ result' = [result EXCEPT ![p] =
                      [NoResult EXCEPT
                           !.kind = IF af.raised THEN "raise" ELSE "return",
                           !.fetch = FetchEnd(r),
                           !.fetched = r.value,
                           !.wrote = af.kind = "write" /\ ~af.raised,
                           !.infra = IF af.raised THEN None ELSE af.infra,
                           !.error = IF af.raised THEN "integrity_error" ELSE "none",
                           !.score = IF f.route = "score" /\ ~af.raised
                                     THEN scored.value ELSE None]]
                /\ frame' = [frame EXCEPT ![p].last_counts = r.last_counts]
                /\ db' = [db EXCEPT ![f.area] = af.row]
                /\ DEFAULT_WEIGHTS' =
                      IF f.route = "score" /\ ~af.raised
                      THEN scored.default_weights ELSE DEFAULT_WEIGHTS
        /\ UNCHANGED <<now, profiles>>

\* datetime.now advances between steps.
TickSteps == {CACHE_TTL_HOURS \div 2, CACHE_TTL_HOURS}

Tick(d) ==
    /\ now + d <= MaxClock
    /\ now' = now + d
    /\ UNCHANGED <<db, pc, frame, log, result, profiles, DEFAULT_WEIGHTS>>

\* Concurrent requests on the cache, with the upstream answers reduced to one
\* of each kind the cache tells apart.
CacheCountOutcomes ==
    {[kind |-> "ok", elements |-> b] : b \in
        { CountEls(<<2, 1, 3, 1, 1, 4, 1, 2>>),
          CountEls(<<2, 3, 3, 0, 1, 5, 1, 2>>) }}
        \cup {[kind |-> "http_error", elements |-> <<>>]}

CacheLocationOutcomes ==
    {[kind |-> "ok", elements |-> <<>>], [kind |-> "http_error", elements |-> <<>>]}

Next ==
    \/ \E p \in Requests, a \in Areas : get_area_infrastructure(p, a)
    \/ \E p \in Requests, a \in Areas : get_area_infrastructure_locations(p, a)
    \/ \E p \in Requests, o \in CacheLocationOutcomes : LocationsResponse(p, o)
    \/ \E p \in Requests, o \in CacheCountOutcomes : CountsResponse(p, o)
    \/ \E d \in TickSteps : Tick(d)

Spec == Init /\ [][Next]_vars

\* One request at a time, with every kind of upstream answer; of the answers
\* to a locations query, the failures and the bodies of at most one element.
FetchLocationOutcomes ==
    {o \in LocationOutcomes : o.kind # "ok" \/ Len(o.elements) <= 1}

Quiet == \A q \in Requests : pc[q] \notin {"locating", "fetching"}

NextFetch ==
    \/ \E p \in Requests, a \in Areas : Quiet /\ get_area_infrastructure(p, a)
    \/ \E p \in Requests, a \in Areas : Quiet /\ get_area_infrastructure_locations(p, a)
    \/ \E p \in Requests : Quiet /\ get_custom_score(p, DefaultRadius)
    \/ \E p \in Requests, o \in FetchLocationOutcomes : LocationsResponse(p, o)
    \/ \E p \in Requests, o \in CountOutcomes : CountsResponse(p, o)

SpecFetch == Init /\ [][NextFetch]_vars

\* One locations request at a time, with every locations body above; the
\* count query that follows is answered with non-zero counts or fails.
LocateCountOutcomes ==
    { [kind |-> "ok", elements |-> CountEls(<<2, 1, 3, 1, 1, 4, 1, 2>>)],
      [kind |-> "http_error", elements |-> <<>>] }

NextLocate ==
    \/ \E p \in Requests, a \in Areas : Quiet /\ get_area_infrastructure_locations(p, a)
    \/ \E p \in Requests, o \in LocationOutcomes : LocationsResponse(p, o)
    \/ \E p \in Requests, o \in LocateCountOutcomes : CountsResponse(p, o)

SpecLocate == Init /\ [][NextLocate]_vars

\* Each post carries a timeout (60 s at line 221, 90 s at line 270): a post
\* that is not answered fails, so no request awaits an answer forever.
TimedOut == [kind |-> "http_error", elements |-> <<>>]

Timeout(p) == CountsResponse(p, TimedOut) \/ LocationsResponse(p, TimedOut)

AnswersArrive == \A p \in Requests : WF_vars(Timeout(p))

\* One request at a time, with one upstream answer of each kind the retry
\* loops tell apart: a non-zero total, a zero total, a failure.
KindCountOutcomes ==
    { [kind |-> "ok", elements |-> CountEls(<<2, 1, 3, 1, 1, 4, 1, 2>>)],
      [kind |-> "ok", elements |-> CountEls(<<0, 0, 0, 0, 0, 0, 0, 0>>)],
      TimedOut }

NextLive ==
    \/ \E p \in Requests, a \in Areas : Quiet /\ get_area_infrastructure(p, a)
    \/ \E p \in Requests, a \in Areas : Quiet /\ get_area_infrastructure_locations(p, a)
    \/ \E p \in Requests : Quiet /\ get_custom_score(p, DefaultRadius)
    \/ \E p \in Requests, o \in CacheLocationOutcomes : LocationsResponse(p, o)
    \/ \E p \in Requests, o \in KindCountOutcomes : CountsResponse(p, o)

SpecFetchLive == Init /\ [][NextLive]_vars /\ AnswersArrive

\* The scoring routes, one request at a time, on stored snapshots and user
\* profiles of every kind.
Counts(totals) == [k \in KeySet |-> totals[CHOOSE i \in 1..Len(CountKeys) : CountKeys[i] = k]]

\* hospital 1, school 3, bus stop 10, metro 2, supermarket 2, restaurant 5.
Scenario == Counts(<<1, 3, 10, 2, 2, 5, 0, 0>>)

\* Counts below the cap of a category, at it and above it.
ScoreLevels == {0, 20, 21}

ScoreSnapshots ==
    {ZeroCounts, Scenario, Counts(<<60, 60, 60, 60, 60, 60, 60, 60>>)}
        \cup {[Scenario EXCEPT ![k] = v] : k \in KeySet, v \in ScoreLevels}

Profiles ==
    [marital_status : {"single", "married"},
     employment_status : {"student", "working", "unemployed"},
     has_parents : BOOLEAN, has_elderly : BOOLEAN, has_children : BOOLEAN,
     has_vehicle : BOOLEAN, income_range : {"prefer_not_to_say"}]

InitScore ==
    /\ \E row \in {None} \cup {Row(s, 0) : s \in ScoreSnapshots} :
          db = [a \in Areas |-> row]
    /\ now = 0
    /\ pc = [p \in Requests |-> "idle"]
    /\ frame = [p \in Requests |-> IdleFrame]
    /\ log = [p \in Requests |-> <<>>]
    /\ result = [p \in Requests |-> NoResult]
    /\ profiles \in [Users -> Profiles \cup {None}]
    /\ DEFAULT_WEIGHTS = BaseWeights

Still == \A q \in Requests : pc[q] \notin {"locating", "fetching", "recommending"}

NextScore ==
    \/ \E p \in Requests, a \in Areas, u \in Users \cup {NoUser} :
          Still /\ get_area_score(p, a, u)
    \/ \E p \in Requests, o \in LocateCountOutcomes : CountsResponse(p, o)

SpecScore == InitScore /\ [][NextScore]_vars

\* The area score route and the recommend route on the score it returned, on
\* stored snapshots of all zeros, of the scenario and of 60 of everything.
RecommendSnapshots == {ZeroCounts, Scenario, Counts(<<60, 60, 60, 60, 60, 60, 60, 60>>)}

InitRecommend ==
    InitScore /\ \A a \in Areas : db[a] # None /\ db[a].counts \in RecommendSnapshots

NextRecommend ==
    \/ \E p \in Requests, a \in Areas, u \in Users \cup {NoUser} :
          Still /\ get_area_score(p, a, u)
    \/ \E p, q \in Requests :
          Still /\ \E body \in {result[q].score} :
                      ScoreReturned(q, body) /\ get_ai_recommendation(p, body)
    \/ \E p \in Requests, o \in GeminiOutcomes : GeminiResponse(p, o)

SpecRecommend == InitRecommend /\ [][NextRecommend]_vars

\* The recommend route on the bodies a client posts of its own.
NextFallback ==
    \/ \E p \in Requests, body \in ClientBodies :
          Still /\ get_ai_recommendation(p, body)
    \/ \E p \in Requests, o \in GeminiOutcomes : GeminiResponse(p, o)

SpecFallback == Init /\ [][NextFallback]_vars

\* The area score route on one stored snapshot, for every profile.
InitWeights == InitScore /\ \A a \in Areas : db[a] = Row(Scenario, 0)

NextWeights ==
    \E p \in Requests, a \in Areas, u \in Users \cup {NoUser} :
        Still /\ get_area_score(p, a, u)

SpecWeights == InitWeights /\ [][NextWeights]_vars

---------------------------------------------------------------------------
(* Properties *)

IsCountEntry(e) == e.mode = "count"
IsLocationsEntry(e) == e.mode = "locations"

\* The upstream requests fetch_from_overpass made for request p's request.
CountLog(p) == SelectSeq(log[p], IsCountEntry)
LocationsLog(p) == SelectSeq(log[p], IsLocationsEntry)

FailureStatuses == {"http_error", "bad_json", "parse_error", "key_error"}

AllFailed(entries) ==
    /\ entries # <<>>
    /\ \A i \in 1..Len(entries) : entries[i].answer.status \in FailureStatuses

\* Request p's fetch_from_overpass ends in this step, and with it the request.
EndsFetch(p) == pc[p] = "fetching" /\ pc'[p] # "fetching"

CacheRoutes == {"infrastructure", "locations"}

\* C1: when a refresh of an area that has a stored snapshot fails on every
\* upstream attempt, the call returns the snapshot it found and the stored
\* snapshot (eight counts and last_updated) is left as it was.
C1_StaleSnapshotKeptOnFailure ==
    [][\A p \in Requests :
          (/\ EndsFetch(p)
           /\ frame[p].route \in CacheRoutes
           /\ frame[p].infra # None
           /\ AllFailed(CountLog(p)'))
          => /\ result'[p].kind = "return"
             /\ result'[p].infra = frame[p].infra
             /\ db'[frame[p].area] = db[frame[p].area]]_vars

\* C2: fetch_from_overpass never raises: whatever the attempts came to, it
\* returns a map of the eight counts, all zero when every attempt failed.
C2_FetchNeverRaises ==
    \A p \in Requests :
        /\ result[p].fetch # "raised"
        /\ (CountLog(p) # <<>> /\ pc[p] # "fetching")
           => /\ result[p].fetch = "returned"
              /\ DOMAIN result[p].fetched = KeySet
              /\ \A k \in KeySet : result[p].fetched[k] \in Nat
              /\ AllFailed(CountLog(p)) => result[p].fetched = ZeroCounts

C2_Witness ==
    \E p \in Requests :
        /\ pc[p] = "done"
        /\ Len(CountLog(p)) = DefaultMaxRetries
        /\ AllFailed(CountLog(p))
        /\ {CountLog(p)[i].answer.status : i \in 1..Len(CountLog(p))}
               = {"http_error", "bad_json", "parse_error"}
        /\ result[p].fetch = "returned"
        /\ result[p].fetched = ZeroCounts

\* Request p's request reaches get_infrastructure_for_area in this step.
EntersInfrastructure(p) ==
    \/ /\ pc[p] = "idle"
       /\ frame'[p].route = "infrastructure"
    \/ /\ pc[p] = "locating"
       /\ pc'[p] \in {"done", "fetching"}

Fresh(row, t) == row # None /\ t < row.last_updated + CACHE_TTL_HOURS

\* C3: a call for an area whose snapshot is within its TTL, without
\* force_refresh, returns that snapshot, makes no upstream count request and
\* leaves every stored snapshot (counts and last_updated) as it was.
C3_CacheHit ==
    [][\A p \in Requests :
          (/\ EntersInfrastructure(p)
           /\ ~frame'[p].force_refresh
           /\ Fresh(db[frame'[p].area], now))
          => /\ pc'[p] = "done"
             /\ result'[p].kind = "return"
             /\ result'[p].infra = db[frame'[p].area]
             /\ CountLog(p)' = <<>>
             /\ db' = db]_vars

C3_Witness ==
    \E p \in Requests :
        /\ pc[p] = "done"
        /\ result[p].hit
        /\ CountLog(p) = <<>>
        /\ db[frame[p].area] = result[p].infra
        /\ result[p].infra.last_updated < now

\* Request p's call found a snapshot past its TTL, was not forced, and is over.
StaleRefreshDone(p) ==
    /\ pc[p] = "done"
    /\ frame[p].route \in CacheRoutes
    /\ ~frame[p].force_refresh
    /\ frame[p].infra # None
    /\ ~result[p].hit

\* C4 as stated: a call for an area whose snapshot is past its TTL, without
\* force_refresh, makes exactly one upstream request.
C4_ExactlyOneUpstreamCall ==
    \A p \in Requests : StaleRefreshDone(p) => Len(CountLog(p)) = 1

\* C4 amended: such a call makes at least one and at most max_retries upstream
\* requests: every response but the last failed (or had a zero total), and
\* fewer than max_retries are made only when the last had a non-zero total.
C4_OneToMaxRetriesUpstreamCalls ==
    \A p \in Requests :
        StaleRefreshDone(p)
        => LET l == CountLog(p)
           IN  /\ Len(l) \in 1..DefaultMaxRetries
               /\ \A i \in 1..(Len(l) - 1) : l[i].answer.status # "nonzero"
               /\ Len(l) < DefaultMaxRetries => l[Len(l)].answer.status = "nonzero"

C4_Witness ==
    \E p \in Requests :
        /\ StaleRefreshDone(p)
        /\ Len(CountLog(p)) = 2
        /\ frame[p].infra.last_updated + CACHE_TTL_HOURS <= now

LastStatus(entries) == entries[Len(entries)].answer.status

\* C5: a refresh that succeeds stores the fetched counts in all eight columns
\* with last_updated = now, returns the row as stored, and changes no other
\* area's row.
C5_RefreshOverwrites ==
    [][\A p \in Requests :
          (/\ EndsFetch(p)
           /\ frame[p].route \in CacheRoutes
           /\ pc'[p] = "done"
           /\ LastStatus(CountLog(p)') = "nonzero")
          => /\ db'[frame[p].area] = Row(result'[p].fetched, now)
             /\ result'[p].infra = db'[frame[p].area]
             /\ \A b \in Areas \ {frame[p].area} : db'[b] = db[b]]_vars

C7_LastWriterWins ==
    [][\A p \in Requests : \A q \in Requests \ {p} :
          (/\ EndsFetch(p)
           /\ frame[p].route \in CacheRoutes
           /\ pc[q] = "done"
           /\ result[q].wrote
           /\ frame[q].route \in CacheRoutes
           /\ frame[q].area = frame[p].area
           /\ frame[p].infra # None
           /\ frame[q].infra = frame[p].infra)
          => /\ pc'[p] = "done"
             /\ result'[p].wrote
             /\ db'[frame[p].area] = Row(result'[p].fetched, now)
             /\ \A b \in Areas \ {frame[p].area} : db'[b] = db[b]]_vars

\* C8: the first response with a non-zero total ends the fetch: it is the last
\* request made, and its counts are what fetch_from_overpass returns.
C8_FirstNonZeroAccepted ==
    \A p \in Requests :
        LET l == CountLog(p)
        IN  \A i \in 1..Len(l) :
                l[i].answer.status = "nonzero"
                => /\ i = Len(l)
                   /\ pc[p] # "fetching"
                   /\ result[p].fetch = "returned"
                   /\ result[p].fetched = l[i].answer.counts

C8_Witness ==
    \E p \in Requests :
        /\ pc[p] = "done"
        /\ Len(CountLog(p)) = 2
        /\ CountLog(p)[1].answer.status = "zero"
        /\ CountLog(p)[2].answer.status = "nonzero"
        /\ result[p].fetched = CountLog(p)[2].answer.counts

\* C9: a response with a zero total is not accepted while attempts remain:
\* another request follows it, and an all-zero result is returned only after
\* max_retries requests, none of which had a non-zero total.
C9_ZeroTotalRetried ==
    \A p \in Requests :
        LET l == CountLog(p)
        IN  /\ \A i \in 1..Len(l) :
                  (l[i].answer.status = "zero" /\ i < DefaultMaxRetries)
                  => (Len(l) > i \/ pc[p] = "fetching")
            /\ (result[p].fetch = "returned" /\ result[p].fetched = ZeroCounts)
               => /\ Len(l) = DefaultMaxRetries
                  /\ \A i \in 1..Len(l) : l[i].answer.status # "nonzero"

C9_Witness ==
    \E p \in Requests :
        /\ pc[p] = "done"
        /\ Len(CountLog(p)) = DefaultMaxRetries
        /\ CountLog(p)[1].answer.status = "zero"
        /\ CountLog(p)[2].answer.status = "http_error"
        /\ CountLog(p)[3].answer.status = "zero"
        /\ result[p].fetch = "returned"
        /\ result[p].fetched = ZeroCounts

\* The endpoints in pool order follow the requests of one fetch in order:
\* request i (0-based) went to endpoint number i mod |pool|.
RotatesEndpoints(l) ==
    /\ \A i \in 1..Len(l) :
          /\ l[i].attempt = i - 1
          /\ l[i].endpoint = OVERPASS_ENDPOINTS[((i - 1) % Len(OVERPASS_ENDPOINTS)) + 1]
    /\ Len(l) <= DefaultMaxRetries
    /\ \A i, j \in 1..Len(l) : i # j => l[i].endpoint # l[j].endpoint

\* C10: in count mode and in location mode, attempt i goes to endpoint
\* i mod |pool|; with 3 attempts and 3 endpoints no endpoint is contacted
\* twice in one fetch.
C10_EndpointRotation ==
    \A p \in Requests : RotatesEndpoints(CountLog(p)) /\ RotatesEndpoints(LocationsLog(p))

C10_Witness ==
    \E p \in Requests :
        /\ Len(LocationsLog(p)) = 2
        /\ Len(CountLog(p)) = DefaultMaxRetries
        /\ LocationsLog(p)[1].answer.status = "key_error"
        /\ CountLog(p)[1].answer.status = "zero"

\* C11: in count mode attempt i (0-based) queries the requested radius plus
\* 500*i: the first attempt the requested radius itself, each later attempt
\* 500 m more than the one before, and none less than the requested radius.
C11_RadiusEscalation ==
    \A p \in Requests :
        LET l == CountLog(p)
        IN  \A i \in 1..Len(l) :
                /\ l[i].radius = frame[p].radius + RadiusStep * (i - 1)
                /\ i = 1 => l[i].radius = frame[p].radius
                /\ i > 1 => l[i].radius = l[i - 1].radius + RadiusStep
                /\ l[i].radius >= frame[p].radius

C11_Witness ==
    \E p \in Requests :
        /\ frame[p].route = "custom"
        /\ Len(CountLog(p)) = DefaultMaxRetries
        /\ CountLog(p)[1].radius = DefaultRadius
        /\ CountLog(p)[3].radius > CountLog(p)[2].radius
        /\ CountLog(p)[2].radius > CountLog(p)[1].radius

\* C13: in location mode every attempt, on whichever endpoint, queries
\* exactly the requested radius.
C13_NoRadiusEscalationInLocationMode ==
    \A p \in Requests :
        LET l == LocationsLog(p)
        IN  \A i \in 1..Len(l) : l[i].radius = AreaRadius(frame[p].area)

C13_Witness ==
    \E p \in Requests :
        /\ Len(LocationsLog(p)) = DefaultMaxRetries
        /\ \A i \in 1..DefaultMaxRetries :
              /\ LocationsLog(p)[i].radius = AreaRadius(frame[p].area)
              /\ LocationsLog(p)[i].endpoint = OVERPASS_ENDPOINTS[i]

\* C12: when every one of the max_retries attempts of fetch_facility_locations
\* fails, it raises the error of the last attempt to its caller; it returns
\* no facility map, and the route goes no further.
C12_LocationsRaiseLastError ==
    \A p \in Requests :
        LET l == LocationsLog(p)
        IN  (Len(l) = DefaultMaxRetries /\ AllFailed(l))
            => /\ pc[p] = "failed"
               /\ result[p].kind = "raise"
               /\ result[p].error = LastStatus(l)
               /\ frame[p].cats = NoCats
               /\ CountLog(p) = <<>>

C12_Witness ==
    \E p \in Requests :
        /\ pc[p] = "failed"
        /\ Len(LocationsLog(p)) = DefaultMaxRetries
        /\ LocationsLog(p)[1].answer.status = "http_error"
        /\ LocationsLog(p)[2].answer.status = "http_error"
        /\ LocationsLog(p)[3].answer.status = "key_error"
        /\ result[p].error = "key_error"

\* The retry budget: no fetch makes more than max_retries requests, and none
\* awaits another answer once it has made that many.
WithinBudget ==
    \A p \in Requests :
        /\ Len(CountLog(p)) <= DefaultMaxRetries
        /\ Len(LocationsLog(p)) <= DefaultMaxRetries
        /\ Len(CountLog(p)) = DefaultMaxRetries => pc[p] # "fetching"
        /\ Len(LocationsLog(p)) = DefaultMaxRetries => pc[p] # "locating"

\* C14: every fetch ends within max_retries upstream requests, given that each
\* request is answered: fetch_from_overpass eventually returns a value, and
\* fetch_facility_locations eventually returns a value or raises.
C14_FetchTerminates ==
    /\ []WithinBudget
    /\ \A p \in Requests :
          (pc[p] = "fetching") ~> (result[p].fetch = "returned")
    /\ \A p \in Requests :
          (pc[p] = "locating") ~> (pc[p] \in {"fetching", "done", "failed"})

C14_Witness ==
    \E p \in Requests :
        /\ frame[p].route = "locations"
        /\ pc[p] = "done"
        /\ Len(LocationsLog(p)) = DefaultMaxRetries
        /\ Len(CountLog(p)) = DefaultMaxRetries
        /\ result[p].fetch = "returned"

\* Request p, a custom score request, takes a step.
CustomArrives(p) == pc[p] = "idle" /\ frame'[p].route = "custom"
CustomAnswered(p) == pc[p] = "fetching" /\ frame[p].route = "custom" /\ log'[p] # log[p]

\* C15: a custom score request loads no stored snapshot and writes none; it
\* always starts an upstream fetch, whatever the store holds and whatever
\* requests came before; and it ends by returning, with eight zeros to score
\* when every attempt failed.
C15_CustomScoreBypassesCache ==
    [][\A p \in Requests :
          /\ CustomArrives(p)
             => /\ pc'[p] = "fetching"
                /\ frame'[p].infra = None
                /\ db' = db
          /\ CustomAnswered(p)
             => /\ db' = db
                /\ frame'[p].infra = None
                /\ pc'[p] \in {"fetching", "done"}
                /\ pc'[p] = "done"
                   => /\ result'[p].kind = "return"
                      /\ ~result'[p].hit
                      /\ ~result'[p].wrote
                      /\ Len(CountLog(p)') >= 1
                      /\ AllFailed(CountLog(p)') => result'[p].fetched = ZeroCounts]_vars

C15_Witness ==
    \E p \in Requests :
        /\ p > 1
        /\ frame[p].route = "custom"
        /\ pc[p] = "done"
        /\ AllFailed(CountLog(p))
        /\ result[p].kind = "return"
        /\ result[p].fetched = ZeroCounts
        /\ \E a \in Areas : db[a] # None /\ db[a].counts # ZeroCounts

\* C16: every stored snapshot has all eight counts >= 0, whatever cache hits,
\* refreshes that succeeded or failed and forced refreshes came before (the
\* upstream totals being non-negative).
C16_StoredCountsNonNegative ==
    \A a \in Areas :
        db[a] # None => \A k \in KeySet : db[a].counts[k] \in Nat

C16_Witness ==
    \E a \in Areas, b \in Areas :
        /\ db[a] = Row(ZeroCounts, CACHE_TTL_HOURS)
        /\ db[b] # None
        /\ db[b].last_updated > 0
        /\ SumCounts(db[b].counts) > 0

\* An answer with body o.elements reaches request p's fetch_facility_locations.
LocationsBody(p, o) ==
    /\ pc[p] = "locating"
    /\ o.kind = "ok"
    /\ LocationsResponse(p, o)

\* fetch_facility_locations returns in this step (the route goes on).
LocationsReturn(p) == pc[p] = "locating" /\ pc'[p] \in {"fetching", "done"}

\* An element with neither lat/lon of its own nor a centre, and the
\* coordinate of an element that has one.
Unresolvable(el) == ~el.has_latlon /\ ~el.has_center

OwnCoord(el) ==
    IF el.has_latlon THEN <<Round6(el.lat), Round6(el.lon)>>
    ELSE <<Round6(el.clat), Round6(el.clon)>>

Considered(elements, i) == Prefix(Block(elements, i - 1), DefaultMaxPerCategory)

\* C17: a response with an element that has no resolvable coordinate does not
\* make the attempt fail: the attempt returns, and every other element
\* considered has its coordinate in the output of its category.
C17_UnresolvableElementsDropped ==
    [][\A p \in Requests : \A o \in LocationOutcomes :
          (/\ LocationsBody(p, o)
           /\ \E j \in 1..Len(o.elements) : Unresolvable(o.elements[j]))
          => /\ LocationsReturn(p)
             /\ \A i \in 1..Len(CatKeys) :
                   LET b == Considered(o.elements, i)
                       out == frame'[p].cats[i]
                   IN  \A j \in 1..Len(b) :
                           ~Unresolvable(b[j])
                           => \E k \in 1..Len(out) : CoordKey(out[k]) = OwnCoord(b[j])]_vars

\* The records of a list, each marked as the first with its rounded coordinate
\* or not, and the list of those that are.
Marked(fs) ==
    [j \in 1..Len(fs) |->
        [f |-> fs[j],
         first |-> \A h \in 1..(j - 1) : CoordKey(fs[h]) # CoordKey(fs[j])]]

IsFirst(mk) == mk.first

FirstSeen(fs) ==
    LET firsts == SelectSeq(Marked(fs), IsFirst)
    IN  [k \in 1..Len(firsts) |-> firsts[k].f]

\* C18: in the output of fetch_facility_locations no two records of a category
\* round to the same coordinate; the output of a category is the list of the
\* records that are the first with their rounded coordinate, in input order;
\* categories are deduplicated apart from each other.
C18_NoDuplicateCoordinates ==
    [][\A p \in Requests : \A o \in LocationOutcomes :
          (LocationsBody(p, o) /\ LocationsReturn(p))
          => \A i \in 1..Len(CatKeys) :
                LET out == frame'[p].cats[i]
                    located == Locate(Block(o.elements, i - 1), CatKeys[i],
                                      DefaultMaxPerCategory)
                IN  /\ \A k, h \in 1..Len(out) :
                          k # h => CoordKey(out[k]) # CoordKey(out[h])
                    /\ out = FirstSeen(located)]_vars

C18_Witness ==
    \E p \in Requests :
        /\ Len(frame[p].cats[1]) = 1
        /\ Len(frame[p].cats[2]) = 1
        /\ CoordKey(frame[p].cats[1][1]) = CoordKey(frame[p].cats[2][1])
        /\ Len(frame[p].cats[Len(CatKeys)]) = 1
        /\ frame[p].cats[Len(CatKeys)][1].name = "c"

\* C19: removing the duplicates of a category of the output again gives the
\* same list.
C19_DedupIdempotent ==
    \A p \in Requests : \A i \in 1..Len(CatKeys) :
        Unique(frame[p].cats[i], {}) = frame[p].cats[i]

C19_Witness ==
    \E p \in Requests :
        LET out == frame[p].cats[Len(CatKeys)]
        IN  /\ Len(out) = 2
            /\ out[1].name = "a"
            /\ out[2].name = "e"

\* C20: of each block only the first max_per_category elements are
\* considered, and the duplicates are removed after that: a category of the
\* output has at most max_per_category records, each of them made from one of
\* the first max_per_category elements of its block.
C20_TruncationBeforeDedup ==
    [][\A p \in Requests : \A o \in LocationOutcomes :
          (LocationsBody(p, o) /\ LocationsReturn(p))
          => \A i \in 1..Len(CatKeys) :
                LET out == frame'[p].cats[i]
                    b == Block(o.elements, i - 1)
                IN  /\ Len(out) <= DefaultMaxPerCategory
                    /\ \A k \in 1..Len(out) :
                          \E j \in 1..Len(b) :
                              /\ j <= DefaultMaxPerCategory
                              /\ out[k] = FacilityLocation(b[j], CatKeys[i])]_vars

C20_Witness ==
    \E p \in Requests :
        /\ Len(frame[p].cats[1]) = BigBlock
        /\ Len(frame[p].cats[Len(CatKeys)]) = DefaultMaxPerCategory - 1

---------------------------------------------------------------------------
(* parse_overpass_counts on short bodies *)

CountBlocks(elements) == SelectSeq(elements, IsCount)

\* A JSON body whose count elements number fewer than eight, all numeric.
ShortBody(o) ==
    /\ o.kind = "ok"
    /\ Len(CountBlocks(o.elements)) < Len(CountKeys)
    /\ \A i \in 1..Len(CountBlocks(o.elements)) : CountBlocks(o.elements)[i].numeric

LastEntry(l) == l[Len(l)]

\* C21: a count-mode body with k < 8 count blocks is not a failure: the k
\* totals go, in order, to the first k categories and every other category is
\* 0; when the total is non-zero these are the counts the fetch returns.
C21_ShortCountResponse ==
    [][\A p \in Requests, o \in CountOutcomes :
          (CountsResponse(p, o) /\ ShortBody(o)) =>
              LET cs == CountBlocks(o.elements)
                  e == LastEntry(log'[p]).answer
              IN  /\ e.status \in {"nonzero", "zero"}
                  /\ \A i \in 1..Len(CountKeys) :
                        e.counts[CountKeys[i]] =
                            IF i <= Len(cs) THEN cs[i].total ELSE 0
                  /\ e.status = "nonzero" =>
                        /\ result'[p].fetch = "returned"
                        /\ result'[p].fetched = e.counts]_vars

C21_Witness ==
    \E p \in Requests :
        /\ frame[p].route = "custom"
        /\ pc[p] = "done"
        /\ result[p].fetch = "returned"
        /\ Len(log[p]) = 1
        /\ result[p].fetched =
              [k \in KeySet |-> IF k = "hospital_count" THEN 1
                                ELSE IF k = "school_count" THEN 2 ELSE 0]

---------------------------------------------------------------------------
(* Scoring engine *)

HasScore(p) == result[p].score # None

\* The snapshot and the profile a request's call of compute_final_score took.
SnapshotOf(p) ==
    IF frame[p].route = "custom"
    THEN IF result[p].fetch = "raised" THEN ZeroCounts ELSE result[p].fetched
    ELSE result[p].infra.counts

CallerProfile(p) == ProfileOf(frame[p].user)

\* C22: for every snapshot with non-negative counts, each of the five
\* category scores is normalize_scores(compute_raw_scores(snapshot)) and lies
\* in [0, 100].
C22_CategoryScoresInRange ==
    \A p \in Requests :
        HasScore(p) =>
            /\ \A k \in KeySet : SnapshotOf(p)[k] >= 0
            /\ result[p].score.category_scores =
                  normalize_scores(compute_raw_scores(SnapshotOf(p)))
            /\ \A k \in CategorySet :
                  /\ result[p].score.category_scores[k] >= 0
                  /\ result[p].score.category_scores[k] <= 100 * 100

\* A raw healthcare score above its cap, scored 100.
C22_Witness ==
    \E p \in Requests :
        /\ HasScore(p)
        /\ compute_raw_scores(SnapshotOf(p)).healthcare > SCORE_CAPS.healthcare
        /\ result[p].score.category_scores.healthcare = 100 * 100
        /\ result[p].score.category_scores.education < 100 * 100

\* C23: for every profile and for none, every returned weight is >= 0 and
\* the five sum to 1.0 within 1e-3.
C23_WeightsSumToOne ==
    \A p \in Requests :
        HasScore(p) =>
            LET w == result[p].score.weights_used
            IN  /\ \A k \in CategorySet : w[k] >= 0
                /\ SumOver(w) >= 100 * 100 - 10
                /\ SumOver(w) <= 100 * 100 + 10

\* Weights of a profile that do not sum to 1.0 exactly after rounding.
C23_Witness ==
    \E p \in Requests :
        /\ HasScore(p)
        /\ CallerProfile(p) # None
        /\ SumOver(result[p].score.weights_used) > 100 * 100

\* Every order the six rules of generate_weights can be applied in.
RuleOrders ==
    {[i \in 1..Len(RuleOrder) |-> RuleOrder[f[i]]] :
        f \in Permutations(1..Len(RuleOrder))}

Unadjusted == [weights |-> DEFAULT_WEIGHTS, adjustments |-> <<>>]

\* Applying the rules in this order, the vehicle rule stops at the floor.
RECURSIVE FloorInPlay(_, _, _)
FloorInPlay(order, profile, st) ==
    /\ order # <<>>
    /\ \/ /\ Head(order) = "has_vehicle"
          /\ profile.has_vehicle
          /\ st.weights.transport - 8 < TransportFloor
       \/ FloorInPlay(Tail(order), profile, ApplyRule(Head(order), profile, st))

If(b, d) == IF b THEN d ELSE 0

Delta(profile, k) ==
    CASE k = "healthcare" ->
           If(profile.has_parents, 10) + If(profile.has_elderly, 12)
      [] k = "education" ->
           If(profile.has_children, 10)
               + If(profile.employment_status = "student", 5)
               + If(profile.marital_status = "married", 8)
      [] k = "transport" ->
           If(profile.employment_status = "working", 8)
               + If(profile.employment_status = "student", 3)
               - If(profile.has_vehicle, 8)
      [] k = "lifestyle" -> If(profile.marital_status = "single", 8)
      [] k = "grocery" -> If(profile.marital_status = "married", 4)

SingleWorkingDriver ==
    [marital_status |-> "single", employment_status |-> "working",
     has_parents |-> FALSE, has_elderly |-> FALSE, has_children |-> FALSE,
     has_vehicle |-> TRUE, income_range |-> "prefer_not_to_say"]

\* C27: for every profile the weights before rescaling are the base vector
\* plus the deltas of every matching rule, and each returned weight is that
\* value divided by the total after adjustment, to the four decimals kept; for
\* {single, working, has_vehicle} the weights before rescaling are transport
\* .25, lifestyle .28, the others .20, .20, .15, and the total is 1.08.
C27_WeightsAreBasePlusDeltas ==
    \A p \in Requests :
        (HasScore(p) /\ CallerProfile(p) # None) =>
            LET pre == ApplyRules(RuleOrder, CallerProfile(p), Unadjusted).weights
                total == SumOver(pre)
                w == result[p].score.weights_used
            IN  /\ \A k \in CategorySet :
                      /\ pre[k] = BaseWeights[k] + Delta(CallerProfile(p), k)
                      /\ 2 * (w[k] * total - pre[k] * 100 * 100) <= total
                      /\ 2 * (pre[k] * 100 * 100 - w[k] * total) <= total
                /\ CallerProfile(p) = SingleWorkingDriver =>
                      /\ pre = [transport |-> 25, healthcare |-> 20, education |-> 20,
                                lifestyle |-> 28, grocery |-> 15]
                      /\ total = 108

\* The score of a single, working owner of a vehicle: .25 / 1.08 = .2315 and
\* .28 / 1.08 = .2593.
C27_Witness ==
    \E p \in Requests :
        /\ HasScore(p)
        /\ CallerProfile(p) = SingleWorkingDriver
        /\ result[p].score.weights_used.transport = 2315
        /\ result[p].score.weights_used.lifestyle = 2593
        /\ Len(result[p].score.profile_context.adjustments) = 3

\* final_score of the call with one count of the snapshot raised by d.
FinalWithMore(p, k, d) ==
    compute_final_score([SnapshotOf(p) EXCEPT ![k] = @ + d], CallerProfile(p),
                        DEFAULT_WEIGHTS).value.final_score

Increases == {1, 19}

\* C25: for a fixed profile, raising any one of the eight counts of a
\* snapshot, the others held, never lowers final_score.
C25_FinalScoreMonotone ==
    \A p \in Requests :
        HasScore(p) =>
            \A k \in KeySet, d \in Increases :
                FinalWithMore(p, k, d) >= result[p].score.final_score

\* One more hospital raises the score; one more school, above the cap, does
\* not.
C25_Witness ==
    \E p \in Requests :
        /\ HasScore(p)
        /\ CallerProfile(p) # None
        /\ SnapshotOf(p).school_count = 21
        /\ FinalWithMore(p, "school_count", 1) = result[p].score.final_score
        /\ FinalWithMore(p, "hospital_count", 1) > result[p].score.final_score

\* A score in whole points, in hundredths.
Points(n) == Min(n, 100) * 100

\* C26: with no profile the category scores are transport min(5 metro + 2
\* bus, 100), healthcare min(5 hospital, 100), education min(5 school, 100),
\* lifestyle min(2 restaurant, 100), grocery min(5 supermarket, 100), and
\* final_score is their sum weighted by .25, .20, .20, .20, .15; the scenario
\* snapshot gives 30, 5, 15, 10, 10 and 15.0.
C26_DefaultScoreFormula ==
    \A p \in Requests :
        (HasScore(p) /\ CallerProfile(p) = None) =>
            LET s == SnapshotOf(p)
                c == result[p].score.category_scores
            IN  /\ c.transport = Points(5 * s.metro_count + 2 * s.bus_stop_count)
                /\ c.healthcare = Points(5 * s.hospital_count)
                /\ c.education = Points(5 * s.school_count)
                /\ c.lifestyle = Points(2 * s.restaurant_count)
                /\ c.grocery = Points(5 * s.supermarket_count)
                /\ 100 * result[p].score.final_score =
                      25 * c.transport + 20 * c.healthcare + 20 * c.education
                          + 20 * c.lifestyle + 15 * c.grocery
                /\ s = Scenario =>
                      /\ c = [transport |-> 3000, healthcare |-> 500,
                              education |-> 1500, lifestyle |-> 1000,
                              grocery |-> 1000]
                      /\ result[p].score.final_score = 1500

C26_Witness ==
    \E p \in Requests :
        /\ HasScore(p)
        /\ frame[p].user = NoUser
        /\ SnapshotOf(p) = Scenario
        /\ result[p].score.final_score = 1500
        /\ result[p].score.profile_context = None

Tied(scores) == \A j, k \in CategorySet : scores[j] = scores[k]

FellBack(p) ==
    /\ result[p].recommendation # None
    /\ result[p].recommendation.source = "fallback"

\* C28: for the all-zero snapshot and any profile or none, final_score is 0.0
\* and every category score is 0; for tied category scores the fallback text
\* has the same category as best and as worst and so the sentence on the one
\* category, not the one on the strongest and the weakest.
C28_ZeroSnapshotAndTie ==
    \A p \in Requests :
        /\ (HasScore(p) /\ SnapshotOf(p) = ZeroCounts) =>
              /\ result[p].score.final_score = 0
              /\ \A k \in CategorySet : result[p].score.category_scores[k] = 0
        /\ (FellBack(p) /\ Tied(frame[p].body.category_scores)) =>
              /\ result[p].recommendation.text.best =
                    result[p].recommendation.text.worst
              /\ result[p].recommendation.text.sentence = "performs_best"

\* The fallback text for the score of an all-zero snapshot and a profile.
C28_Witness ==
    \E p \in Requests :
        /\ FellBack(p)
        /\ frame[p].body.final_score = 0
        /\ \A k \in CategorySet : frame[p].body.category_scores[k] = 0
        /\ frame[p].body.infrastructure.hospitals = 0
        /\ frame[p].body.profile_context # None
        /\ result[p].recommendation.text.sentence = "performs_best"
        /\ result[p].recommendation.text.best = "transport"

OtherLevels == {0, 60}

\* The result of the call with other gym and bar counts.
WithGymsAndBars(p, g, b) ==
    compute_final_score([SnapshotOf(p) EXCEPT !.gym_count = g, !.bar_count = b],
                        CallerProfile(p), DEFAULT_WEIGHTS).value

\* C29: two snapshots that differ only in gym_count and bar_count give the
\* same category_scores, weights_used and final_score for every profile; the
\* two counts appear, unchanged, in the infrastructure breakdown.
C29_GymsAndBarsDoNotScore ==
    \A p \in Requests :
        HasScore(p) =>
            /\ result[p].score.infrastructure.gyms = SnapshotOf(p).gym_count
            /\ result[p].score.infrastructure.bars = SnapshotOf(p).bar_count
            /\ \A g, b \in OtherLevels :
                  LET other == WithGymsAndBars(p, g, b)
                  IN  /\ other.category_scores = result[p].score.category_scores
                      /\ other.weights_used = result[p].score.weights_used
                      /\ other.final_score = result[p].score.final_score
                      /\ other.infrastructure.gyms = g
                      /\ other.infrastructure.bars = b

C29_Witness ==
    \E p \in Requests :
        /\ HasScore(p)
        /\ CallerProfile(p) # None
        /\ SnapshotOf(p).gym_count = 21
        /\ result[p].score.infrastructure.gyms = 21
        /\ result[p].score.category_scores =
              WithGymsAndBars(p, 0, 0).category_scores

\* A step in which request p gets its score.
ScoresNow(p) == ~HasScore(p) /\ HasScore(p)'

\* C30: a call of compute_final_score leaves DEFAULT_WEIGHTS, the profile and
\* the snapshot as they were, and returns, trail included, what any other call
\* on the same snapshot and profile returned.
C30_EnginePure ==
    [][\A p \in Requests :
          ScoresNow(p) =>
              /\ DEFAULT_WEIGHTS = BaseWeights
              /\ DEFAULT_WEIGHTS' = DEFAULT_WEIGHTS
              /\ profiles' = profiles
              /\ result'[p].hit => db' = db
              /\ frame'[p].route = "score" =>
                    db'[frame'[p].area].counts = SnapshotOf(p)'
              /\ \A q \in Requests \ {p} :
                    ( /\ HasScore(q)
                      /\ SnapshotOf(q) = SnapshotOf(p)'
                      /\ CallerProfile(q) = CallerProfile(p)' )
                        => result'[p].score = result[q].score]_vars

\* A second call for a profile with adjustments, after which DEFAULT_WEIGHTS is
\* what it was created with.
C30_Witness ==
    \E p \in Requests :
        /\ p > 1
        /\ HasScore(p)
        /\ result[p].hit
        /\ CallerProfile(p) # None
        /\ Len(result[p].score.profile_context.adjustments) >= 2
        /\ DEFAULT_WEIGHTS = BaseWeights

AllSpaces(t) == \A i \in 1..Len(t) : IsSpace(t[i])

\* The answers of Gemini that are failures of the text generation: no answer,
\* status 429 or another error status, a body that is not JSON, a body
\* without candidates or with an empty list of them, a text that is empty or
\* only whitespace.
GenerationFailed(o) ==
    \/ o.kind = "transport_error"
    \/ o.status >= 400
    \/ ~o.parses
    \/ o.candidates # "one"
    \/ AllSpaces(o.text)

GeminiAnswer(p) == log[p][Len(log[p])].answer

Recommended(p) ==
    /\ frame[p].route = "recommend"
    /\ pc[p] \in {"done", "failed"}

\* C31: whatever the post to Gemini comes to, the recommend request ends with
\* a text and never with an error; after every failure of the text generation
\* (no answer, 429, another error status, a malformed body, no or an empty
\* list of candidates, an empty or whitespace text) the text is the fallback
\* text for the posted score, and the text is Gemini's only when Gemini's text
\* is not empty.
C31_FailureNeverSurfaced ==
    \A p \in Requests :
        Recommended(p) =>
            LET o == GeminiAnswer(p)
                rec == result[p].recommendation
                body == frame[p].body
            IN  /\ pc[p] = "done"
                /\ result[p].kind = "return"
                /\ rec # None
                /\ GenerationFailed(o) =>
                      /\ rec.source = "fallback"
                      /\ rec.text = generate_fallback(body.final_score,
                                        body.category_scores, body.profile_context)
                /\ rec.source = "gemini" =>
                      /\ o.text # <<>>
                      /\ rec.text # <<>>
                      /\ ~GenerationFailed(o)

\* Gemini answers with an error status other than 429 and the request ends
\* with the fallback text.
C31_Witness ==
    \E p \in Requests :
        /\ Recommended(p)
        /\ GeminiAnswer(p).kind = "response"
        /\ GeminiAnswer(p).status = 500
        /\ pc[p] = "done"
        /\ FellBack(p)

\* C32: the tier of the fallback text is "a strong choice" from 75 up, "a
\* decent option" from 55 up to under 75, "a below-average option" from 35 up
\* to under 55 and "not well-suited" under 35, so 75, 55 and 35 are in the
\* higher tier and every score has exactly one tier.
C32_TierThresholds ==
    \A p \in Requests :
        FellBack(p) =>
            LET f == frame[p].body.final_score
                tier == result[p].recommendation.text.tier
            IN  /\ tier = "a strong choice" <=> f >= 7500
                /\ tier = "a decent option" <=> (f >= 5500 /\ f < 7500)
                /\ tier = "a below-average option" <=> (f >= 3500 /\ f < 5500)
                /\ tier = "not well-suited" <=> f < 3500

\* A fallback text for a final score of exactly 55.
C32_Witness ==
    \E p \in Requests :
        /\ FellBack(p)
        /\ frame[p].body.final_score = 5500
        /\ result[p].recommendation.text.tier = "a decent option"

Range(seq) == {seq[i] : i \in 1..Len(seq)}

\* C33: the fallback text has at most one caveat from the profile: the one on
\* healthcare if there are elderly and healthcare is under 50, else the one
\* on education if there are children and education is under 50, else the one
\* on transport if there is no vehicle and transport is under 50; without a
\* profile it has none.
C33_OneCaveatByPriority ==
    \A p \in Requests :
        FellBack(p) =>
            LET profile == frame[p].body.profile_context
                scores == frame[p].body.category_scores
                caveats == result[p].recommendation.text.caveats
                elderly == profile # None /\ profile.has_elderly
                              /\ scores.healthcare < 5000
                children == profile # None /\ profile.has_children
                              /\ scores.education < 5000
                carless == profile # None /\ ~profile.has_vehicle
                              /\ scores.transport < 5000
            IN  /\ Len(caveats) <= 1
                /\ profile = None => caveats = <<>>
                /\ "healthcare" \in Range(caveats) <=> elderly
                /\ "education" \in Range(caveats) <=> (children /\ ~elderly)
                /\ "transport" \in Range(caveats) <=>
                      (carless /\ ~children /\ ~elderly)

\* A fallback text for a profile and scores that meet all three conditions.
C33_Witness ==
    \E p \in Requests :
        /\ FellBack(p)
        /\ frame[p].body.profile_context # None
        /\ frame[p].body.profile_context.has_elderly
        /\ frame[p].body.profile_context.has_children
        /\ ~frame[p].body.profile_context.has_vehicle
        /\ frame[p].body.category_scores.healthcare < 5000
        /\ frame[p].body.category_scores.education < 5000
        /\ frame[p].body.category_scores.transport < 5000
        /\ result[p].recommendation.text.caveats = <<"healthcare">>

---------------------------------------------------------------------------
(* The blocks of a locations response *)

\* The positions (1-based) of the elements of category i (1-based) in a list
\* of n elements: after the (i - 1) * (n // 8) elements of the categories
\* before, n // 8 elements, and for the last category all that are left.
FirstOf(n, i) == (i - 1) * (n \div Len(CatKeys)) + 1

LastOf(n, i) == IF i < Len(CatKeys) THEN i * (n \div Len(CatKeys)) ELSE n

Positions(n, i) == FirstOf(n, i)..LastOf(n, i)

\* C34: the elements of a locations response are split by position into
\* eight runs in category order, the first seven of len // 8 elements each
\* and the last (bars) of all the rest; the runs are contiguous, disjoint and
\* cover the list; every record of a category is made from an element of its
\* run and every element of a run that is considered and kept has a record
\* in its category; of fewer than eight elements all are in the last run.
C34_BlocksPartitionElements ==
    [][\A p \in Requests : \A o \in LocationOutcomes :
          (LocationsBody(p, o) /\ LocationsReturn(p))
          => LET n == Len(o.elements)
                 last == Len(CatKeys)
             IN  /\ FirstOf(n, 1) = 1
                 /\ LastOf(n, last) = n
                 /\ \A i \in 1..(last - 1) :
                       /\ Cardinality(Positions(n, i)) = n \div last
                       /\ FirstOf(n, i + 1) = LastOf(n, i) + 1
                 /\ Cardinality(Positions(n, last)) = n - (last - 1) * (n \div last)
                 /\ \A i, j \in 1..last :
                       i # j => Positions(n, i) \cap Positions(n, j) = {}
                 /\ UNION {Positions(n, i) : i \in 1..last} = 1..n
                 /\ \A i \in 1..last :
                       LET out == frame'[p].cats[i]
                       IN  /\ Block(o.elements, i - 1) =
                                 [j \in 1..Cardinality(Positions(n, i)) |->
                                     o.elements[FirstOf(n, i) + j - 1]]
                           /\ \A k \in 1..Len(out) :
                                 \E j \in Positions(n, i) :
                                     out[k] = FacilityLocation(o.elements[j], CatKeys[i])
                           /\ \A j \in Positions(n, i) :
                                 (/\ j - FirstOf(n, i) < DefaultMaxPerCategory
                                  /\ Kept(o.elements[j]))
                                 => \E k \in 1..Len(out) :
                                        CoordKey(out[k]) = OwnCoord(o.elements[j])
                 /\ n < last => \A i \in 1..(last - 1) : frame'[p].cats[i] = <<>>]_vars

\* A response of three elements, all of them returned as bars, and none in
\* the other categories.
C34_Witness ==
    \E p \in Requests :
        /\ frame[p].route = "locations"
        /\ pc[p] \in {"fetching", "done"}
        /\ \A i \in 1..(Len(CatKeys) - 1) : frame[p].cats[i] = <<>>
        /\ Len(frame[p].cats[Len(CatKeys)]) = 3
        /\ frame[p].cats[Len(CatKeys)][3].name = "c"
        /\ frame[p].cats[Len(CatKeys)][3].type = "bars"

---------------------------------------------------------------------------
(* The forced refresh of the locations route *)

\* The locations request p gets from fetch_facility_locations to
\* get_infrastructure_for_area in this step.
LocationsEnterInfrastructure(p) ==
    /\ pc[p] = "locating"
    /\ pc'[p] \in {"done", "fetching"}

\* C35: the call of get_infrastructure_for_area a locations request makes for
\* area 6 never returns the cached snapshot: it starts an upstream fetch, also
\* when the snapshot is within its TTL, and when the fetch ends it writes the
\* snapshot back, stamped now (with the fetched counts, if no other request
\* wrote in between); for another main area whose snapshot is within its TTL
\* the call returns that snapshot, without upstream count request or write.
C35_Area6ForcesRefresh ==
    [][\A p \in Requests :
          /\ LocationsEnterInfrastructure(p) =>
                LET a == frame[p].area
                IN  IF a = ForceRefreshArea
                    THEN /\ pc'[p] = "fetching"
                         /\ ~result'[p].hit
                         /\ frame'[p].force_refresh
                         /\ db' = db
                    ELSE Fresh(db[a], now) =>
                            /\ pc'[p] = "done"
                            /\ result'[p].hit
                            /\ result'[p].infra = db[a]
                            /\ CountLog(p)' = <<>>
                            /\ db' = db
          /\ (/\ EndsFetch(p)
              /\ frame[p].route = "locations"
              /\ frame[p].area = ForceRefreshArea
              /\ frame[p].infra # None) =>
                /\ pc'[p] = "done"
                /\ result'[p].wrote
                /\ Len(CountLog(p)') >= 1
                /\ db'[ForceRefreshArea].last_updated = now
                /\ db[ForceRefreshArea] = frame[p].infra =>
                      db'[ForceRefreshArea] = Row(result'[p].fetched, now)]_vars

\* A locations request for area 6 that loaded a snapshot still within its TTL
\* when the request ended, fetched, and wrote the snapshot back.
C35_Witness ==
    \E p \in Requests :
        /\ pc[p] = "done"
        /\ frame[p].route = "locations"
        /\ frame[p].area = ForceRefreshArea
        /\ frame[p].infra # None
        /\ Fresh(frame[p].infra, now)
        /\ result[p].wrote
        /\ Len(CountLog(p)) >= 1
        /\ db[ForceRefreshArea] = Row(result[p].fetched, now)
        /\ frame[p].infra.last_updated < now

---------------------------------------------------------------------------
(* The range of the final score *)

WeightsTotal(weights) == SumSeq([i \in 1..Len(Categories) |-> weights[Categories[i]]])

\* C36: the final score of every score computed lies in [0, 100], for every
\* snapshot of non-negative counts and every profile or none, also when the
\* weights returned sum to more than 1 and every category score is 100.
C36_FinalScoreInRange ==
    \A p \in Requests :
        HasScore(p) =>
            /\ \A k \in KeySet : SnapshotOf(p)[k] >= 0
            /\ result[p].score.final_score >= 0
            /\ result[p].score.final_score <= 100 * 100

\* A score of 100 for category scores that are all 100 and weights that sum
\* to more than 1.
C36_Witness ==
    \E p \in Requests :
        /\ HasScore(p)
        /\ CallerProfile(p) # None
        /\ \A k \in CategorySet : result[p].score.category_scores[k] = 100 * 100
        /\ WeightsTotal(result[p].score.weights_used) > 100 * 100
        /\ result[p].score.final_score = 100 * 100

---------------------------------------------------------------------------
(* The transport floor *)

\* The rules before the vehicle rule, and those up to and including it.
VehicleRule == CHOOSE i \in 1..Len(RuleOrder) : RuleOrder[i] = "has_vehicle"

BeforeVehicle(profile) ==
    ApplyRules(SubSeq(RuleOrder, 1, VehicleRule - 1), profile, Unadjusted).weights

RightAfterVehicle(profile) ==
    ApplyRules(SubSeq(RuleOrder, 1, VehicleRule), profile, Unadjusted).weights

\* C37: for every profile the vehicle rule finds the transport weight at its
\* base value 0.25, so for an owner of a vehicle the weight right after the
\* rule is 0.17, the floor of 0.05 does not come into play, and no profile
\* has a transport weight under 0.17 before rescaling.
C37_TransportFloorUnreachable ==
    \A p \in Requests :
        (HasScore(p) /\ CallerProfile(p) # None) =>
            LET profile == CallerProfile(p)
                pre == ApplyRules(RuleOrder, profile, Unadjusted).weights
            IN  /\ BeforeVehicle(profile).transport = BaseWeights.transport
                /\ BaseWeights.transport = 25
                /\ profile.has_vehicle =>
                      /\ RightAfterVehicle(profile).transport = 17
                      /\ RightAfterVehicle(profile).transport > TransportFloor
                /\ ~FloorInPlay(RuleOrder, profile, Unadjusted)
                /\ pre.transport >= 17
                /\ result[p].score.weights_used = Rescale(pre)

\* The score of an unemployed owner of a vehicle, whose transport weight stays
\* at 0.17 before rescaling.
C37_Witness ==
    \E p \in Requests :
        /\ HasScore(p)
        /\ CallerProfile(p) # None
        /\ CallerProfile(p).has_vehicle
        /\ CallerProfile(p).employment_status = "unemployed"
        /\ ApplyRules(RuleOrder, CallerProfile(p), Unadjusted).weights.transport = 17
        /\ "Has vehicle -> Transport weight decreased (-0.08)" \in
              Range(result[p].score.profile_context.adjustments)

---------------------------------------------------------------------------
(* Location mode and empty responses *)

\* C38: fetch_facility_locations returns on the first response that does not
\* fail, with the categories of that response, which are eight empty lists
\* for a response without elements; the response is the last request it
\* makes.
C38_NoZeroRetryInLocationMode ==
    [][\A p \in Requests :
          /\ \A o \in LocationOutcomes :
                (/\ LocationsBody(p, o)
                 /\ ~FacilityCats(o.elements, DefaultMaxPerCategory).raised)
                => /\ LocationsReturn(p)
                   /\ frame'[p].cats =
                         FacilityCats(o.elements, DefaultMaxPerCategory).cats
                   /\ o.elements = <<>> => frame'[p].cats = NoCats
          /\ LET l == LocationsLog(p)'
             IN  \A i \in 1..Len(l) :
                     l[i].answer.status = "ok"
                     => /\ i = Len(l)
                        /\ pc'[p] # "locating"]_vars

\* A locations fetch whose first request failed and whose second was answered
\* without elements: it returned eight empty lists and made no third request.
C38_Witness ==
    \E p \in Requests :
        /\ frame[p].route = "locations"
        /\ pc[p] = "done"
        /\ Len(LocationsLog(p)) = 2
        /\ LocationsLog(p)[1].answer.status = "http_error"
        /\ LocationsLog(p)[2].answer.status = "ok"
        /\ frame[p].cats = NoCats

---------------------------------------------------------------------------
(* Two first requests for one area *)

\* Request q's call for the area of request p found no snapshot, as p's did,
\* and has stored one by now.
InsertedFirst(q, p) ==
    /\ pc[q] = "done"
    /\ result[q].wrote
    /\ frame[q].route \in CacheRoutes
    /\ frame[q].area = frame[p].area
    /\ frame[q].infra = None

\* C39: when two calls for an area without a snapshot both find none before
\* either writes, the second to finish also completes without error, and the
\* area has a snapshot afterwards (one: the table holds at most one row for
\* an area).
C39_ConcurrentFirstInsert ==
    [][\A p \in Requests : \A q \in Requests \ {p} :
          (/\ EndsFetch(p)
           /\ frame[p].route \in CacheRoutes
           /\ frame[p].infra = None
           /\ InsertedFirst(q, p))
          => /\ pc'[p] = "done"
             /\ result'[p].kind = "return"
             /\ result'[p].error = "none"
             /\ db'[frame[p].area] # None]_vars

---------------------------------------------------------------------------
(* last_updated over time *)

\* Request p's call of get_infrastructure_for_area writes its row in this step.
WritesBack(p, a) ==
    /\ EndsFetch(p)
    /\ frame[p].route # "custom"
    /\ frame[p].area = a
    /\ result'[p].wrote

\* C40: the clock never goes back and, for each area, a stored snapshot stays
\* stored and its last_updated never decreases; the snapshot changes only in
\* a step in which a call for the area writes back, and then its last_updated
\* is the time of that step; a cache hit changes nothing.
C40_LastUpdatedNeverDecreases ==
    [][/\ now' >= now
       /\ \A a \in Areas :
             /\ db[a] # None =>
                   /\ db'[a] # None
                   /\ db'[a].last_updated >= db[a].last_updated
             /\ db'[a] # db[a] =>
                   /\ \E p \in Requests : WritesBack(p, a)
                   /\ db'[a].last_updated = now
       /\ \A p \in Requests :
             (EntersInfrastructure(p) /\ result'[p].hit) => db' = db]_vars

\* Two calls loaded the snapshot of an area; one has written it back, stamped
\* later than what both loaded, and the other is still fetching.
C40_Witness ==
    \E p \in Requests : \E q \in Requests \ {p} :
        /\ pc[p] = "done"
        /\ result[p].wrote
        /\ frame[p].route = "infrastructure"
        /\ frame[p].infra # None
        /\ pc[q] = "fetching"
        /\ frame[q].area = frame[p].area
        /\ frame[q].infra = frame[p].infra
        /\ db[frame[p].area].last_updated = now
        /\ frame[p].infra.last_updated < now

====
